---- MODULE Spec2Model ----
(***************************************************************************)
(* Request-admission and flow-control core of the KuCoin trading agent.    *)
(*                                                                         *)
(*   Part I    UnifiedRateController  (src/src/api/unified_rate_controller.rs) *)
(*             data level: counters, window, priority queues, SLA waits    *)
(*   Part II   UnifiedRateController, lock level: the order in which the   *)
(*             tasks take the six RwLocks                                  *)
(*   Part III  KuCoinRateLimiter      (src/src/api/rate_limiter.rs)        *)
(*                                                                         *)
(* Time is in milliseconds.  Every part has its own variables, its own     *)
(* initial predicate and its own next-state relation; a specification of   *)
(* one part leaves the variables of the other parts unchanged.             *)
(***************************************************************************)
EXTENDS Integers, Sequences, FiniteSets, TLC

(***************************************************************************)
(* Part I.  UnifiedRateController, data level                              *)
(***************************************************************************)

\* Number of tasks that call request_permit.  Each makes one call; the tasks
\* are numbered in the order in which they call.
NumCallers == 2

Callers == 1..NumCallers

\* const TOTAL_CAPACITY: u32 = 800
TOTAL_CAPACITY == 800

\* THROTTLE_THRESHOLD = 0.80, RECOVERY_THRESHOLD = 0.60, ALERT_THRESHOLD = 0.90,
\* kept as percentages so that the comparisons stay in the integers.
THROTTLE_THRESHOLD == 80

RECOVERY_THRESHOLD == 60

ALERT_THRESHOLD == 90

\* SCAN_INTERVAL_NORMAL / SCAN_INTERVAL_HIGH_LOAD, in seconds
SCAN_INTERVAL_NORMAL == 3600

SCAN_INTERVAL_HIGH_LOAD == 7200

\* Duration::from_secs(30) in the monitor loop, in ms
WINDOW_MS == 30000

Priorities == {"Critical", "High", "Medium", "Low"}

\* for priority in [Critical, High, Medium, Low]
PriorityOrder == <<"Critical", "High", "Medium", "Low">>

Categories == {"Trading", "Scanning", "Administrative"}

ThrottleStates == {"Normal", "Moderate", "Heavy", "Emergency"}

\* The request_permit calls a task may make, <<weight, priority, category>>.
\* Weight 100 is under the SCANNING cap (160) and over the ADMIN cap (80), two
\* of them are over the SCANNING cap; 801 is over capacity on its own.  Every
\* priority occurs on the slow path, CRITICAL and HIGH also on the fast path.
Calls ==
    { <<100, "Critical", "Administrative">>, <<801, "Critical", "Trading">>,
      <<100, "High", "Scanning">>,           <<801, "High", "Trading">>,
      <<100, "Medium", "Administrative">>,   <<100, "Low", "Administrative">> }

\* Values of the u64 hash that calculate_jitter reduces modulo the range.
Hashes == {0, 15}

\* Priority::sla_ms (a mutant: HIGH waits 5 s instead of 500 ms)
sla_ms_slow(p) ==
    CASE p = "Critical" -> 100
      [] p = "High"     -> 5000
      [] p = "Medium"   -> 2000
      [] p = "Low"      -> 10000

\* Priority::sla_ms
sla_ms(p) ==
    CASE p = "Critical" -> 100
      [] p = "High"     -> 500
      [] p = "Medium"   -> 2000
      [] p = "Low"      -> 10000

\* OperationCategory::max_capacity_share, in percent
max_capacity_share(c) ==
    CASE c = "Trading"        -> 70
      [] c = "Scanning"       -> 20
      [] c = "Administrative" -> 10

\* (TOTAL_CAPACITY as f64 * share) as u32 : 560, 160, 80
cat_max(c) == (TOTAL_CAPACITY * max_capacity_share(c)) \div 100

\* u32::saturating_sub
saturating_sub(a, b) == IF a >= b THEN a - b ELSE 0

\* Part I: the controller's fields and its callers
VARIABLES
    now,                \* Instant::now(), ms
    requests,           \* VecDeque<RequestRecord>
    current_usage,      \* u32
    category_usage,     \* HashMap<OperationCategory, u32>
    queues,             \* HashMap<Priority, VecDeque<QueuedRequest>>
    throttle_state,     \* ThrottleState
    scan_interval,      \* u64, seconds
    total_requests,     \* AtomicU64
    throttled_requests, \* AtomicU64
    sla_violations,     \* AtomicU64
    pc,                 \* where each caller is in request_permit / complete
    call,               \* the arguments of each caller's request_permit
    queue_start,        \* request_permit's local queue_start
    queued_at,          \* QueuedRequest.queued_at of the caller's entry
    deadline,           \* instant at which tokio::time::timeout elapses
    channel,            \* the caller's oneshot channel
    permit,             \* the RateLimitPermit a caller holds
    record_ts           \* RequestRecord.timestamp taken by record_request

varsURC == <<now, requests, current_usage, category_usage, queues,
             throttle_state, scan_interval, total_requests,
             throttled_requests, sla_violations, pc, call, queue_start,
             queued_at, deadline, channel, permit, record_ts>>

\* Part II: the RwLocks of the controller
VARIABLES
    lk_held,    \* lock -> set of <<task, mode>> guards alive
    lk_waitq,   \* lock -> FIFO queue of <<task, mode>> waiting (tokio is fair)
    lk_prog,    \* task -> the lock instructions it still has to run
    lk_front    \* priority -> what the front entry of that queue is

varsLock == <<lk_held, lk_waitq, lk_prog, lk_front>>

\* Part III: KuCoinRateLimiter and the callers of acquire
VARIABLES
    rl_now,                 \* Instant::now(), ms
    request_history,        \* VecDeque<RequestLog>: [timestamp, weight]
    semaphore,              \* permits available
    circuit_breaker_until,  \* None, or the instant
    bk_held,                \* guards alive on circuit_breaker_until: <<caller, mode>>
    bk_waitq,               \* callers queued for that lock: <<caller, mode>>
    rate_limit_violations,
    rl_total_requests,
    total_weight_used,
    rl_pc,                  \* caller -> position in its innermost acquire frame
    rl_weight,              \* caller -> the weight argument of its call
    rl_permits,             \* caller -> permits its frames (or its guard) hold
    rl_wake,                \* caller -> end of its tokio::time::sleep
    rl_calls                \* caller -> acquire calls made so far

varsRL == <<rl_now, request_history, semaphore, circuit_breaker_until, bk_held,
            bk_waitq, rate_limit_violations, rl_total_requests,
            total_weight_used, rl_pc, rl_weight, rl_permits, rl_wake,
            rl_calls>>

\* Part IV: AdaptiveScheduler (SchedulerState behind one RwLock)
VARIABLES
    sch_now,                \* Instant::now(), in clock units
    sch_next_tick,          \* the instant of the next interval.tick()
    sch_state,              \* SchedulerState.state
    window_start,
    cooldown_triggered_at,  \* None, or the instant
    last_reset,             \* None, or the instant
    operations,             \* VecDeque<OperationRecord>: [timestamp, weight]
    sch_total_weight_used,
    operations_count,
    cooldowns_triggered,
    successful_resets,
    failed_resets,
    cp_result               \* what the last can_proceed returned

varsSched == <<sch_now, sch_next_tick, sch_state, window_start,
               cooldown_triggered_at, last_reset, operations,
               sch_total_weight_used, operations_count, cooldowns_triggered,
               successful_resets, failed_resets, cp_result>>

\* Part V: one call of process_queues, followed through its for loop
VARIABLES
    pq_in,        \* what the call found: queues, usage, cat_usage, channel
    pq_st,        \* the same four, as the loop has left them so far
    pq_throttle,  \* let throttle = *throttle_state.read().await
    pq_i,         \* 0: not called; 1..4: index of the priority; 5: returned
    pq_log        \* the priorities of the requests granted, in order

varsPQ == <<pq_in, pq_st, pq_throttle, pq_i, pq_log>>

\* Part VI: AdaptiveOptimizer
VARIABLES
    current_parameters,  \* DynamicParameters
    current_metrics,     \* PerformanceMetrics
    opt_history,         \* VecDeque<PerformanceSnapshot>, the metrics of each
    opt_stats,           \* OptimizerStats
    opt_ticks,           \* ticks of the optimization loop so far
    opt_held_ticks,      \* the latest ticks in a row that saw accuracy 0.999
    opt_outcome          \* what the last tick did with its proposal

varsOpt == <<current_parameters, current_metrics, opt_history, opt_stats,
             opt_ticks, opt_held_ticks, opt_outcome>>

\* Part VII: PreTradeValidator and DataQualityManager
VARIABLES
    ptv_context,    \* the TradeContext of the validation, or NoContext
    ptv_checks,     \* Vec<QualityCheck> of DataQualityManager::validate
    ptv_results,    \* Vec<ValidationResult> of PreTradeValidator::validate
    ptv_can_trade   \* what can_trade(&results) returned

varsPTV == <<ptv_context, ptv_checks, ptv_results, ptv_can_trade>>

\* Part VIII: the two calculate_jitter functions and the delay of grant_permit
VARIABLES
    jit_call,    \* the call: its kind, min_ms, max_ms and the hash drawn
    jit_out    \* what the call returned, in ms

varsJit == <<jit_call, jit_out>>

\* Part IX: one iteration of the optimizer loop, step by step
VARIABLES
    tick_pc,    \* where the loop is: "idle" or "analysing"
    tick_metrics,    \* its local metrics
    tick_params    \* its local params

varsTick == <<tick_pc, tick_metrics, tick_params>>

\* Part X: EventBus
VARIABLES
    bus_sent,    \* publish calls so far: the n-th publishes event n
    bus_tail,    \* events stored in the channel so far
    bus_buffer,    \* the events the channel retains, oldest first
    rx_next,    \* per subscriber: the position it reads next, 0 before subscribe()
    rx_log    \* per subscriber: what its recv() calls returned, in order

varsBus == <<bus_sent, bus_tail, bus_buffer, rx_next, rx_log>>

\* Part XI: streaming RateLimiter
VARIABLES
    srl_config,     \* RateLimiterConfig, or NoConfig before RateLimiter::new
    srl_now,        \* Instant::now(), in ticks
    srl_semaphore,  \* permits the semaphore has left
    request_times,  \* VecDeque<Instant> of the streaming limiter
    srl_pc,         \* per task: where it is in acquire
    srl_wake,       \* per task: the instant its time::sleep ends
    srl_held,       \* per task: the RateLimitPermits it holds
    srl_start,      \* per task: the instant of its first acquire call, -1 before
    srl_calls,      \* acquire calls so far
    srl_grants      \* the permits returned so far: task, start_time, recorded or not

varsSRL ==
    <<srl_config, srl_now, srl_semaphore, request_times, srl_pc,
      srl_wake, srl_held, srl_start, srl_calls, srl_grants>>

vars ==
    <<varsURC, varsLock, varsRL, varsSched, varsPQ, varsOpt, varsPTV,
      varsJit, varsTick, varsBus, varsSRL>>

\* What a step of one part leaves alone: the variables of the other parts.
besidesURC ==
    <<varsLock, varsRL, varsSched, varsPQ, varsOpt, varsPTV, varsJit,
      varsTick, varsBus, varsSRL>>

besidesLock ==
    <<varsURC, varsRL, varsSched, varsPQ, varsOpt, varsPTV, varsJit,
      varsTick, varsBus, varsSRL>>

besidesRL ==
    <<varsURC, varsLock, varsSched, varsPQ, varsOpt, varsPTV, varsJit,
      varsTick, varsBus, varsSRL>>

besidesSched ==
    <<varsURC, varsLock, varsRL, varsPQ, varsOpt, varsPTV, varsJit,
      varsTick, varsBus, varsSRL>>

besidesPQ ==
    <<varsURC, varsLock, varsRL, varsSched, varsOpt, varsPTV, varsJit,
      varsTick, varsBus, varsSRL>>

besidesOpt ==
    <<varsURC, varsLock, varsRL, varsSched, varsPQ, varsPTV, varsJit,
      varsTick, varsBus, varsSRL>>

besidesPTV ==
    <<varsURC, varsLock, varsRL, varsSched, varsPQ, varsOpt, varsJit,
      varsTick, varsBus, varsSRL>>

besidesJit ==
    <<varsURC, varsLock, varsRL, varsSched, varsPQ, varsOpt, varsPTV,
      varsTick, varsBus, varsSRL>>

besidesTick ==
    <<varsURC, varsLock, varsRL, varsSched, varsPQ, varsOpt, varsPTV,
      varsJit, varsBus, varsSRL>>

besidesSRL ==
    <<varsURC, varsLock, varsRL, varsSched, varsPQ, varsOpt, varsPTV,
      varsJit, varsTick, varsBus>>

NoCall == [weight |-> 0, priority |-> "none", category |-> "none"]

NoPermit == [weight |-> 0, priority |-> "none", category |-> "none",
             queue_time_ms |-> 0, delay |-> 0]

\* UnifiedRateController::new
InitURC ==
    /\ now = 0
    /\ requests = <<>>
    /\ current_usage = 0
    /\ category_usage = [c \in Categories |-> 0]
    /\ queues = [p \in Priorities |-> <<>>]
    /\ throttle_state = "Normal"
    /\ scan_interval = SCAN_INTERVAL_NORMAL
    /\ total_requests = 0
    /\ throttled_requests = 0
    /\ sla_violations = 0
    /\ pc = [c \in Callers |-> "idle"]
    /\ call = [c \in Callers |-> NoCall]
    /\ queue_start = [c \in Callers |-> 0]
    /\ queued_at = [c \in Callers |-> 0]
    /\ deadline = [c \in Callers |-> 0]
    /\ channel = [c \in Callers |-> "none"]
    /\ permit = [c \in Callers |-> NoPermit]
    /\ record_ts = [c \in Callers |-> 0]

\* grant_permit: base_delay_ms of the throttle state
base_delay_ms(t) ==
    CASE t = "Normal"    -> 10
      [] t = "Moderate"  -> 50
      [] t = "Heavy"     -> 200
      [] t = "Emergency" -> 500

\* A jitter whose remainder is taken modulo one more than the width of the
\* range.
calculate_jitter_wide(min_ms, max_ms, hash) == min_ms + (hash % (max_ms - min_ms + 2))

\* calculate_jitter: min_ms + (hash % (max_ms - min_ms + 1))
calculate_jitter(min_ms, max_ms, hash) == min_ms + (hash % (max_ms - min_ms + 1))

\* grant_permit: builds the permit and counts it; it reads throttle_state
\* and changes no usage counter.
grant_permit(c, weight, priority, category, queue_time_ms, hash) ==
    /\ call' = [call EXCEPT ![c] = NoCall]
    /\ permit' = [permit EXCEPT ![c] =
          [weight |-> weight, priority |-> priority, category |-> category,
           queue_time_ms |-> queue_time_ms,
           delay |-> calculate_jitter(base_delay_ms(throttle_state) \div 2,
                                      base_delay_ms(throttle_state) * 2, hash)]]
    /\ total_requests' = total_requests + 1
    /\ pc' = [pc EXCEPT ![c] = "permit"]

\* An admission test without the exemption of CRITICAL from the category
\* limit.
CanProceed_no_exemption(weight, priority, category) ==
    /\ current_usage + weight <= TOTAL_CAPACITY
    /\ category_usage[category] + weight <= cat_max(category)

\* request_permit: the fast-path admission test
CanProceed(weight, priority, category) ==
    /\ current_usage + weight <= TOTAL_CAPACITY
    /\ \/ category_usage[category] + weight <= cat_max(category)
       \/ priority = "Critical"

\* request_permit up to the point where it either returns a permit (fast
\* path) or has built its QueuedRequest and waits for the queues lock.
RequestPermit(c) ==
    /\ pc[c] = "idle"
    /\ \A d \in Callers : d < c => pc[d] # "idle"
    /\ \E a \in Calls, h \in Hashes :
         /\ IF CanProceed(a[1], a[2], a[3])
            THEN /\ grant_permit(c, a[1], a[2], a[3], 0, h)
                 /\ UNCHANGED <<throttled_requests, queue_start, queued_at>>
            ELSE /\ call' = [call EXCEPT ![c] =
                        [weight |-> a[1], priority |-> a[2], category |-> a[3]]]
                 /\ throttled_requests' = throttled_requests + 1
                 /\ queue_start' = [queue_start EXCEPT ![c] = now]
                 /\ queued_at' = [queued_at EXCEPT ![c] = now]
                 /\ pc' = [pc EXCEPT ![c] = "enqueue"]
                 /\ UNCHANGED <<permit, total_requests>>
    /\ UNCHANGED <<now, requests, current_usage, category_usage, queues,
                   throttle_state, scan_interval, sla_violations, deadline,
                   channel, record_ts>>
    /\ UNCHANGED besidesURC

\* request_permit: push_back under the queues write lock, then
\* tokio::time::timeout(sla_duration, rx) starts.
Enqueue(c) ==
    /\ pc[c] = "enqueue"
    /\ queues' = [queues EXCEPT ![call[c].priority] =
          Append(@, [priority |-> call[c].priority, category |-> call[c].category,
                     weight |-> call[c].weight, queued_at |-> queued_at[c],
                     sender |-> c])]
    /\ channel' = [channel EXCEPT ![c] = "open"]
    /\ deadline' = [deadline EXCEPT ![c] = now + sla_ms(call[c].priority)]
    /\ queued_at' = [queued_at EXCEPT ![c] = 0]
    /\ pc' = [pc EXCEPT ![c] = "waiting"]
    /\ UNCHANGED <<now, requests, current_usage, category_usage, throttle_state,
                   scan_interval, total_requests, throttled_requests,
                   sla_violations, call, queue_start, permit, record_ts>>
    /\ UNCHANGED besidesURC

\* What tokio::time::timeout(sla_duration, rx).await returns: the receiver is
\* polled before the timer, so a sent notification wins over an elapsed SLA.
\* "Closed" is Ok(Err(_)): the sender was dropped without sending.
wait_result(c) ==
    IF channel[c] = "sent" THEN "Notified"
    ELSE IF channel[c] = "sender_dropped" THEN "Closed"
    ELSE IF now >= deadline[c] THEN "Elapsed"
    ELSE "Pending"

\* request_permit: "Grant anyway for critical operations" (a mutant: nobody
\* is granted after an SLA violation)
sla_expiry_grants_nobody(priority) == FALSE

\* request_permit: "Grant anyway for critical operations"
sla_expiry_grants(priority) == priority = "Critical"

\* request_permit after the wait: the match on wait_result.
Wake(c) ==
    /\ pc[c] = "waiting"
    /\ wait_result(c) # "Pending"
    /\ channel' = [channel EXCEPT ![c] = "receiver_dropped"]
    /\ queue_start' = [queue_start EXCEPT ![c] = 0]
    /\ deadline' = [deadline EXCEPT ![c] = 0]
    /\ \E h \in Hashes :
         IF wait_result(c) = "Notified"
         THEN /\ grant_permit(c, call[c].weight, call[c].priority, call[c].category,
                              now - queue_start[c], h)
              /\ UNCHANGED sla_violations
         ELSE /\ sla_violations' = sla_violations + 1
              /\ IF sla_expiry_grants(call[c].priority)
                 THEN grant_permit(c, call[c].weight, call[c].priority,
                                   call[c].category, now - queue_start[c], h)
                 ELSE /\ pc' = [pc EXCEPT ![c] = "failed"]
                      /\ UNCHANGED <<permit, total_requests, call>>
    /\ UNCHANGED <<now, requests, current_usage, category_usage, queues,
                   throttle_state, scan_interval, throttled_requests,
                   queued_at, record_ts>>
    /\ UNCHANGED besidesURC

\* RateLimitPermit::complete -> record_request: the record is built with
\* timestamp Instant::now(), then the task waits for the requests write lock.
\* The record takes every field of the permit but the delay.
Complete(c) ==
    /\ pc[c] = "permit"
    /\ record_ts' = [record_ts EXCEPT ![c] = now]
    /\ permit' = [permit EXCEPT ![c].delay = 0]
    /\ pc' = [pc EXCEPT ![c] = "recording"]
    /\ UNCHANGED <<now, requests, current_usage, category_usage, queues,
                   throttle_state, scan_interval, total_requests,
                   throttled_requests, sla_violations, call, queue_start,
                   queued_at, deadline, channel>>
    /\ UNCHANGED besidesURC

\* record_request: self.requests.write().await.push_back(record)
RecordRequest(c) ==
    /\ pc[c] = "recording"
    /\ requests' = Append(requests,
          [timestamp |-> record_ts[c], weight |-> permit[c].weight,
           priority |-> permit[c].priority, category |-> permit[c].category,
           queue_time_ms |-> permit[c].queue_time_ms])
    /\ permit' = [permit EXCEPT ![c] = NoPermit]
    /\ record_ts' = [record_ts EXCEPT ![c] = 0]
    /\ pc' = [pc EXCEPT ![c] = "done"]
    /\ UNCHANGED <<now, current_usage, category_usage, queues, throttle_state,
                   scan_interval, total_requests, throttled_requests,
                   sla_violations, call, queue_start, queued_at, deadline,
                   channel>>
    /\ UNCHANGED besidesURC

\* A mutant of DropPermit: a Drop implementation that records the request.
DropPermit_records(c) ==
    /\ pc[c] = "permit"
    /\ requests' = Append(requests,
          [timestamp |-> now, weight |-> permit[c].weight,
           priority |-> permit[c].priority, category |-> permit[c].category,
           queue_time_ms |-> permit[c].queue_time_ms])
    /\ permit' = [permit EXCEPT ![c] = NoPermit]
    /\ pc' = [pc EXCEPT ![c] = "dropped"]
    /\ UNCHANGED <<now, current_usage, category_usage, queues,
                   throttle_state, scan_interval, total_requests,
                   throttled_requests, sla_violations, call, queue_start,
                   queued_at, deadline, channel, record_ts>>
    /\ UNCHANGED besidesURC

\* The permit goes out of scope without complete(): RateLimitPermit has no
\* Drop implementation, so nothing is recorded.
DropPermit(c) ==
    /\ pc[c] = "permit"
    /\ permit' = [permit EXCEPT ![c] = NoPermit]
    /\ pc' = [pc EXCEPT ![c] = "dropped"]
    /\ UNCHANGED <<now, requests, current_usage, category_usage, queues,
                   throttle_state, scan_interval, total_requests,
                   throttled_requests, sla_violations, call, queue_start,
                   queued_at, deadline, channel, record_ts>>
    /\ UNCHANGED besidesURC

\* A mutant of Evict: current_usage is reduced with a plain subtraction.
RECURSIVE Evict_unsaturated(_, _, _, _)
Evict_unsaturated(reqs, usage, cat_usage, cutoff) ==
    IF reqs # <<>> /\ Head(reqs).timestamp < cutoff
    THEN Evict_unsaturated(Tail(reqs),
               usage - Head(reqs).weight,
               [cat_usage EXCEPT ![Head(reqs).category] =
                    saturating_sub(@, Head(reqs).weight)],
               cutoff)
    ELSE [reqs |-> reqs, usage |-> usage, cat_usage |-> cat_usage]

\* A mutant of Evict: an if in place of the while, one record per tick.
Evict_once(reqs, usage, cat_usage, cutoff) ==
    IF reqs # <<>> /\ Head(reqs).timestamp < cutoff
    THEN [reqs |-> Tail(reqs),
          usage |-> saturating_sub(usage, Head(reqs).weight),
          cat_usage |-> [cat_usage EXCEPT ![Head(reqs).category] =
                            saturating_sub(@, Head(reqs).weight)]]
    ELSE [reqs |-> reqs, usage |-> usage, cat_usage |-> cat_usage]

\* Monitor loop, "Clean expired requests": pops records from the front while
\* timestamp < cutoff, subtracting with saturation.
RECURSIVE Evict(_, _, _, _)
Evict(reqs, usage, cat_usage, cutoff) ==
    IF reqs # <<>> /\ Head(reqs).timestamp < cutoff
    THEN Evict(Tail(reqs),
               saturating_sub(usage, Head(reqs).weight),
               [cat_usage EXCEPT ![Head(reqs).category] =
                    saturating_sub(@, Head(reqs).weight)],
               cutoff)
    ELSE [reqs |-> reqs, usage |-> usage, cat_usage |-> cat_usage]

\* Monitor loop, "Update throttle state": usage_pct = usage / TOTAL_CAPACITY
\* compared with the thresholds (in percent).
classify(usage) ==
    IF usage * 100 >= ALERT_THRESHOLD * TOTAL_CAPACITY THEN "Emergency"
    ELSE IF usage * 100 >= THROTTLE_THRESHOLD * TOTAL_CAPACITY THEN "Heavy"
    ELSE IF usage * 100 >= RECOVERY_THRESHOLD * TOTAL_CAPACITY THEN "Moderate"
    ELSE "Normal"

\* Monitor loop, "Adjust scan interval based on load"
new_interval(usage) ==
    IF usage * 100 >= THROTTLE_THRESHOLD * TOTAL_CAPACITY
    THEN SCAN_INTERVAL_HIGH_LOAD
    ELSE SCAN_INTERVAL_NORMAL

\* a drain limit that is not lowered from HEAVY to EMERGENCY
max_to_process_lax(t) ==
    CASE t = "Normal"    -> 10
      [] t = "Moderate"  -> 5
      [] t = "Heavy"     -> 2
      [] t = "Emergency" -> 2

\* process_queues: max_to_process of the throttle state
max_to_process(t) ==
    CASE t = "Normal"    -> 10
      [] t = "Moderate"  -> 5
      [] t = "Heavy"     -> 2
      [] t = "Emergency" -> 1

\* oneshot Sender::send: delivered if the receiver is still there, otherwise
\* the error is ignored (let _ = req.sender.send(())).
send(ch, c) == [ch EXCEPT ![c] = IF @ = "open" THEN "sent" ELSE @]

\* process_queues: the while loop over one priority queue.  st carries the
\* queues, both usage counters and the channels.
RECURSIVE drain_queue(_, _, _, _)
drain_queue(st, priority, processed, max) ==
    IF processed < max /\ st.queues[priority] # <<>>
    THEN LET req == Head(st.queues[priority])
             projected == st.usage + req.weight
         IN  IF projected <= TOTAL_CAPACITY
             THEN IF \/ st.cat_usage[req.category] + req.weight <= cat_max(req.category)
                     \/ req.priority = "Critical"
                  THEN drain_queue(
                         [queues    |-> [st.queues EXCEPT ![priority] = Tail(@)],
                          usage     |-> st.usage + req.weight,
                          cat_usage |-> [st.cat_usage EXCEPT ![req.category] = @ + req.weight],
                          channel   |-> send(st.channel, req.sender)],
                         priority, processed + 1, max)
                  ELSE st   \* category limit reached: break
             ELSE st        \* capacity full: break
    ELSE st

\* process_queues: the for loop over [Critical, High, Medium, Low]
RECURSIVE process_queues(_, _, _)
process_queues(st, throttle, i) ==
    IF i > Len(PriorityOrder) THEN st
    ELSE process_queues(drain_queue(st, PriorityOrder[i], 0, max_to_process(throttle)),
                        throttle, i + 1)

\* One iteration of the monitor loop of start_monitoring: evict, reclassify,
\* adjust the scan interval, then process_queues.  The locks are released
\* between the two halves, but what other tasks can do there (read the
\* counters, append to requests) is read by neither half.
MonitorTick ==
    LET ev    == Evict(requests, current_usage, category_usage, now - WINDOW_MS)
        state == classify(ev.usage)
        st    == process_queues([queues |-> queues, usage |-> ev.usage,
                                 cat_usage |-> ev.cat_usage, channel |-> channel],
                                state, 1)
    IN  /\ requests' = ev.reqs
        /\ throttle_state' = state
        /\ scan_interval' = new_interval(ev.usage)
        /\ queues' = st.queues
        /\ current_usage' = st.usage
        /\ category_usage' = st.cat_usage
        /\ channel' = st.channel
        /\ UNCHANGED <<now, total_requests, throttled_requests, sla_violations,
                       pc, call, queue_start, queued_at, deadline, permit, record_ts>>
        /\ UNCHANGED besidesURC

\* Instants at which something becomes due: the SLA timer of a waiter, the
\* last instant at which a record is still inside the window and the first
\* at which the monitor may evict it.
Instants ==
    {deadline[c] : c \in {d \in Callers : pc[d] = "waiting"}}
      \cup {requests[i].timestamp + WINDOW_MS : i \in 1..Len(requests)}
      \cup {requests[i].timestamp + WINDOW_MS + 1 : i \in 1..Len(requests)}

\* Time passes, up to the next instant at which something is due; a running
\* SLA timer fires on time, so time never passes a waiter's deadline.
Advance ==
    /\ \E t \in Instants :
         /\ t > now
         /\ \A c \in Callers : pc[c] = "waiting" => t <= deadline[c]
         /\ now' = t
    /\ UNCHANGED <<requests, current_usage, category_usage, queues,
                   throttle_state, scan_interval, total_requests,
                   throttled_requests, sla_violations, pc, call, queue_start,
                   queued_at, deadline, channel, permit, record_ts>>
    /\ UNCHANGED besidesURC

\* How long, in ms, the scheduler may keep a caller between building its
\* QueuedRequest (queued_at: Instant::now()) and push_back under the lock.
EnqueueDelay == 2

\* request_permit: the task is held up between queued_at: Instant::now() and
\* self.queues.write().await, for instance by the monitor holding the lock.
Preempt ==
    /\ \E c \in Callers : pc[c] = "enqueue" /\ now < queued_at[c] + EnqueueDelay
    /\ \A c \in Callers : pc[c] = "waiting" => now + 1 <= deadline[c]
    /\ now' = now + 1
    /\ UNCHANGED <<requests, current_usage, category_usage, queues,
                   throttle_state, scan_interval, total_requests,
                   throttled_requests, sla_violations, pc, call, queue_start,
                   queued_at, deadline, channel, permit, record_ts>>
    /\ UNCHANGED besidesURC

NextURC ==
    \/ \E c \in Callers : RequestPermit(c)
    \/ \E c \in Callers : Enqueue(c)
    \/ \E c \in Callers : Wake(c)
    \/ \E c \in Callers : Complete(c)
    \/ \E c \in Callers : RecordRequest(c)
    \/ \E c \in Callers : DropPermit(c)
    \/ MonitorTick
    \/ Advance

\* The controller with scheduling latency in request_permit.
NextLatency ==
    \/ \E c \in Callers : RequestPermit(c)
    \/ \E c \in Callers : Enqueue(c)
    \/ \E c \in Callers : Wake(c)
    \/ \E c \in Callers : Complete(c)
    \/ \E c \in Callers : RecordRequest(c)
    \/ \E c \in Callers : DropPermit(c)
    \/ MonitorTick
    \/ Advance
    \/ Preempt

(***************************************************************************)
(* Part I, properties                                                      *)
(***************************************************************************)

RECURSIVE SumWeights(_)
SumWeights(reqs) ==
    IF reqs = <<>> THEN 0 ELSE Head(reqs).weight + SumWeights(Tail(reqs))

\* A record is inside the rolling window while the monitor may not evict it.
InWindow(r) == r.timestamp >= now - WINDOW_MS

\* Summed weight of the Request Records inside the rolling window.
WindowWeight == SumWeights(SelectSeq(requests, InWindow))

\* Summed weight of the non-CRITICAL records of one category in the window.
CategoryWindowWeight(k) ==
    LET Keep(r) == InWindow(r) /\ r.category = k /\ r.priority # "Critical"
    IN  SumWeights(SelectSeq(requests, Keep))

\* The caller's request_permit returned a permit in this step.
Granted(c) == pc[c] \in {"idle", "waiting"} /\ pc'[c] = "permit"

\* C1: current_usage equals the summed weight of the records held in
\* requests, in every reachable state.
C1_UsageIsSumOfRecords == current_usage = SumWeights(requests)

\* C2: request_permit never grants a CRITICAL permit when the weight in the
\* rolling window plus the requested weight exceeds capacity.
C2_CriticalObeysCapacity ==
    [][\A c \in Callers :
          (Granted(c) /\ permit'[c].priority = "Critical")
             => WindowWeight + permit'[c].weight <= TOTAL_CAPACITY]_varsURC

\* C3: right after a monitor tick the weight inside the rolling window is at
\* most capacity.
C3_WindowWithinCapacityAtTick ==
    [][MonitorTick => WindowWeight' <= TOTAL_CAPACITY]_varsURC

\* C4: the weight of the non-CRITICAL records of a category inside the window
\* never exceeds the category's share of capacity.
C4_CategoryReserve ==
    \A k \in Categories : CategoryWindowWeight(k) <= cat_max(k)

\* C8: a CRITICAL request_permit never fails with SlaTimeout.
C8_CriticalNeverFails ==
    \A c \in Callers : pc[c] = "failed" => call[c].priority # "Critical"

\* A CRITICAL caller was granted its permit after its SLA had expired.
C8_Witness ==
    \E c \in Callers :
        /\ pc[c] = "permit"
        /\ permit[c].priority = "Critical"
        /\ permit[c].queue_time_ms >= 100
        /\ sla_violations >= 1

\* The SLA the claim gives each non-CRITICAL priority, in ms.
ClaimedSla(p) ==
    CASE p = "High" -> 500 [] p = "Medium" -> 2000 [] p = "Low" -> 10000

\* The instant at which the waiter's entry was pushed and its timer started.
WaitStart(c) == deadline[c] - sla_ms(call[c].priority)

\* C9: a non-CRITICAL waiter is never in its queue longer than the SLA of its
\* priority, and one that is not notified leaves the wait exactly at SLA
\* expiry, with SlaTimeout.
C9_SlaBoundsTheWait ==
    /\ [](\A c \in Callers :
            (pc[c] = "waiting" /\ call[c].priority # "Critical")
               => now - WaitStart(c) <= ClaimedSla(call[c].priority))
    /\ [][\A c \in Callers :
            (/\ pc[c] = "waiting"
             /\ call[c].priority # "Critical"
             /\ channel[c] # "sent"
             /\ pc'[c] # "waiting")
               => /\ pc'[c] = "failed"
                  /\ now = WaitStart(c) + ClaimedSla(call[c].priority)]_varsURC

\* A MEDIUM waiter was released with SlaTimeout when its 2 s had passed.
C9_Witness ==
    \E c \in Callers :
        /\ pc[c] = "failed"
        /\ call[c].priority = "Medium"
        /\ now >= 2000
        /\ sla_violations >= 1

\* The callers that still wait on the entry they pushed.
LiveWaiters(p) == {c \in Callers : pc[c] = "waiting" /\ call[c].priority = p}

\* C10: a waiter released by SLA expiry has no entry left in any queue, and
\* the length of each queue (queue_depths) is the number of its live waiters.
C10_TimedOutEntryRemoved ==
    /\ \A c \in Callers : pc[c] = "failed" =>
          \A p \in Priorities : \A i \in 1..Len(queues[p]) : queues[p][i].sender # c
    /\ \A p \in Priorities : Len(queues[p]) = Cardinality(LiveWaiters(p))

\* The entry that caller c pushed, if it is in its queue.
EntryOf(c) ==
    LET q == queues[call[c].priority]
    IN  {q[i] : i \in {j \in 1..Len(q) : q[j].sender = c}}

\* C12: of two waiters of one priority the one with the earlier queued_at
\* is granted or fails first: the later one never leaves its wait while the
\* earlier one is still waiting.
C12_FifoWithinTier ==
    [][\A a, b \in Callers :
          (/\ a # b
           /\ pc[a] = "waiting" /\ pc[b] = "waiting"
           /\ call[a].priority = call[b].priority
           /\ \E ea \in EntryOf(a), eb \in EntryOf(b) : ea.queued_at < eb.queued_at)
             => ~(pc'[b] # "waiting" /\ pc'[a] = "waiting")]_varsURC

\* Sum of category_usage over the three categories.
CategorySum ==
    category_usage["Trading"] + category_usage["Scanning"]
      + category_usage["Administrative"]

\* C13: the sum of category_usage over TRADING, SCANNING and ADMIN equals
\* current_usage in every reachable state, also after evictions that
\* subtract with saturation.
C13_CategoriesSumToUsage == CategorySum = current_usage

\* The monitor has evicted the record of a completed request.
C13_Witness ==
    /\ requests = <<>>
    /\ \E c \in Callers : pc[c] = "done"
    /\ now > WINDOW_MS

\* The window of every record held has elapsed.
AllElapsed == \A i \in 1..Len(requests) : requests[i].timestamp < now - WINDOW_MS

\* C14: a request that was granted (on the fast path or from a queue) and
\* completed leaves no trace once its window has elapsed: the monitor tick
\* at which every record held has elapsed returns requests, current_usage
\* and category_usage to their values before the requests.
C14_RoundTrip ==
    [][(MonitorTick /\ requests # <<>> /\ AllElapsed)
          => /\ requests' = <<>>
             /\ current_usage' = 0
             /\ category_usage' = [k \in Categories |-> 0]]_varsURC

\* Two requests, one of them granted from its queue after the SLA, were
\* completed and their records evicted.
C14_Witness ==
    /\ requests = <<>>
    /\ \A c \in Callers : pc[c] = "done"
    /\ sla_violations >= 1
    /\ total_requests >= 2

\* C15: a permit dropped without complete records nothing: requests holds
\* at most one record per completed request, and with a dropped permit the
\* counters are what they were before the request.
C15_DropRecordsNothing ==
    /\ Len(requests) <= Cardinality({c \in Callers : pc[c] = "done"})
    /\ \A c \in Callers : pc[c] = "dropped" =>
          current_usage = 0 /\ category_usage = [k \in Categories |-> 0]

\* A fast-path permit and a permit granted from the queue were both dropped.
C15_Witness ==
    /\ \A c \in Callers : pc[c] = "dropped"
    /\ sla_violations >= 1
    /\ total_requests >= 2

(***************************************************************************)
(* Part II.  UnifiedRateController, lock level                             *)
(*                                                                         *)
(* The six tokio::sync::RwLock fields and the order in which the monitor   *)
(* task, a get_stats caller and a request_permit / complete caller take    *)
(* and release them.  Each task runs a program of lock instructions; a     *)
(* guard bound to a variable is released where the variable is dropped, a  *)
(* temporary guard at the end of its statement.                            *)
(***************************************************************************)

Locks == {"requests", "current_usage", "category_usage", "queues",
          "throttle_state", "scan_interval"}

LockTasks == {"monitor", "stats", "caller"}

Acq(l, m) == <<"acq", l, m>>

Rel(l) == <<"rel", l>>

\* One iteration of the monitor loop.  interval_val (the scan_interval write
\* guard) is a local of the loop body and is dropped at its end, after
\* process_queues has returned.
MonitorProgram ==
    << Acq("requests", "w"), Acq("category_usage", "w"), Acq("current_usage", "w"),
       Acq("throttle_state", "w"), Acq("scan_interval", "w"),
       Rel("throttle_state"), Rel("current_usage"), Rel("category_usage"),
       Rel("requests"),
       \* process_queues
       Acq("queues", "w"), Acq("throttle_state", "r"), Rel("throttle_state"),
       <<"scan", "-", "-">>,
       Rel("queues"),
       Rel("scan_interval") >>

\* process_queues, the body of the while loop for one queue: nothing for an
\* empty queue; for a front entry over capacity the read of current_usage and
\* break; for a front entry over its category cap also the category_usage
\* read guard, dropped at the break.  (No queued entry passes both tests: see
\* drain_queue and CanProceed.)
ScanQueue(front) ==
    CASE front = "empty" -> << >>
      [] front = "cap"   -> << Acq("current_usage", "r"), Rel("current_usage") >>
      [] front = "cat"   -> << Acq("current_usage", "r"), Rel("current_usage"),
                               Acq("category_usage", "r"), Rel("category_usage") >>

\* process_queues: the for loop over the four queues
ScanProgram ==
    ScanQueue(lk_front["Critical"]) \o ScanQueue(lk_front["High"])
      \o ScanQueue(lk_front["Medium"]) \o ScanQueue(lk_front["Low"])

\* get_stats: usage is copied out; cat_usage, queues and reqs are guards held
\* to the end; the throttle_state and scan_interval guards are temporaries of
\* the returned struct expression.
StatsProgram ==
    << Acq("current_usage", "r"), Rel("current_usage"),
       Acq("category_usage", "r"), Acq("queues", "r"), Acq("requests", "r"),
       Acq("throttle_state", "r"), Acq("scan_interval", "r"),
       Rel("scan_interval"), Rel("throttle_state"),
       Rel("requests"), Rel("queues"), Rel("category_usage") >>

\* grant_permit: let throttle = *self.throttle_state.read().await
GrantLocks == << Acq("throttle_state", "r"), Rel("throttle_state") >>

\* permit.complete -> record_request
CompleteLocks == << Acq("requests", "w"), Rel("requests") >>

\* request_permit on the fast path, followed by complete: cat_usage is alive
\* while grant_permit runs.
FastPathProgram ==
    << Acq("current_usage", "r"), Rel("current_usage"), Acq("category_usage", "r") >>
      \o GrantLocks \o << Rel("category_usage") >> \o CompleteLocks

\* request_permit on the slow path: kind "cat" failed the category test (the
\* cat_usage guard dies with the if block), kind "cap" the capacity test.
\* After the wait a CRITICAL caller is granted and completes, any other
\* returns the error.
SlowPathProgram(kind, p) ==
    << Acq("current_usage", "r"), Rel("current_usage") >>
      \o (IF kind = "cat"
          THEN << Acq("category_usage", "r"), Rel("category_usage") >>
          ELSE << >>)
      \o << Acq("queues", "w"), <<"push", p, kind>>, Rel("queues") >>
      \o (IF p = "Critical" THEN GrantLocks \o CompleteLocks ELSE << >>)

\* The programs a caller may run: CRITICAL is never queued for its category.
CallerPrograms ==
    {FastPathProgram}
      \cup {SlowPathProgram("cap", p) : p \in Priorities}
      \cup {SlowPathProgram("cat", p) : p \in Priorities \ {"Critical"}}

InitLock ==
    /\ lk_held = [l \in Locks |-> {}]
    /\ lk_waitq = [l \in Locks |-> << >>]
    /\ lk_prog = [t \in LockTasks |-> << >>]
    /\ lk_front = [p \in Priorities |-> "empty"]

\* RwLock: readers share, a writer is alone.
Compatible(l, m) ==
    IF m = "r" THEN \A h \in lk_held[l] : h[2] = "r" ELSE lk_held[l] = {}

InWaitQueue(t, l) == \E i \in 1..Len(lk_waitq[l]) : lk_waitq[l][i][1] = t

\* The lock is handed out in FIFO order: a task takes it when it is
\* compatible with the guards alive and nobody queues before the task.
CanTake(t, l, m) ==
    /\ Compatible(l, m)
    /\ IF lk_waitq[l] = << >> THEN TRUE ELSE Head(lk_waitq[l])[1] = t

AtAcquire(t) ==
    IF lk_prog[t] = << >> THEN FALSE ELSE Head(lk_prog[t])[1] = "acq"

\* A task enters the monitor iteration, get_stats, or request_permit.
TaskStart(t) ==
    /\ lk_prog[t] = << >>
    /\ \E prog \in (CASE t = "monitor" -> {MonitorProgram}
                      [] t = "stats"   -> {StatsProgram}
                      [] t = "caller"  -> CallerPrograms) :
          lk_prog' = [lk_prog EXCEPT ![t] = prog]
    /\ UNCHANGED <<lk_held, lk_waitq, lk_front>>
    /\ UNCHANGED besidesLock

\* lock.read().await / lock.write().await returns the guard.
LockAcquire(t) ==
    /\ AtAcquire(t)
    /\ LET l == Head(lk_prog[t])[2]
           m == Head(lk_prog[t])[3]
       IN  /\ CanTake(t, l, m)
           /\ lk_held' = [lk_held EXCEPT ![l] = @ \cup {<<t, m>>}]
           /\ lk_waitq' = [lk_waitq EXCEPT ![l] =
                             IF InWaitQueue(t, l) THEN Tail(@) ELSE @]
           /\ lk_prog' = [lk_prog EXCEPT ![t] = Tail(@)]
    /\ UNCHANGED lk_front
    /\ UNCHANGED besidesLock

\* lock.read().await / lock.write().await suspends: the task joins the
\* lock's wait queue.
LockWait(t) ==
    /\ AtAcquire(t)
    /\ LET l == Head(lk_prog[t])[2]
           m == Head(lk_prog[t])[3]
       IN  /\ ~CanTake(t, l, m)
           /\ ~InWaitQueue(t, l)
           /\ lk_waitq' = [lk_waitq EXCEPT ![l] = Append(@, <<t, m>>)]
    /\ UNCHANGED <<lk_held, lk_prog, lk_front>>
    /\ UNCHANGED besidesLock

\* A guard is dropped.
LockRelease(t) ==
    /\ lk_prog[t] # << >>
    /\ Head(lk_prog[t])[1] = "rel"
    /\ LET l == Head(lk_prog[t])[2]
       IN  lk_held' = [lk_held EXCEPT ![l] = {h \in @ : h[1] # t}]
    /\ lk_prog' = [lk_prog EXCEPT ![t] = Tail(@)]
    /\ UNCHANGED <<lk_waitq, lk_front>>
    /\ UNCHANGED besidesLock

\* request_permit: queues.get_mut(&priority).unwrap().push_back(req); the
\* entry stays in the queue, so the front only changes when the queue was empty.
QueuePush(t) ==
    /\ lk_prog[t] # << >>
    /\ Head(lk_prog[t])[1] = "push"
    /\ LET p    == Head(lk_prog[t])[2]
           kind == Head(lk_prog[t])[3]
       IN  lk_front' = [lk_front EXCEPT ![p] = IF @ = "empty" THEN kind ELSE @]
    /\ lk_prog' = [lk_prog EXCEPT ![t] = Tail(@)]
    /\ UNCHANGED <<lk_held, lk_waitq>>
    /\ UNCHANGED besidesLock

\* process_queues under the queues write guard: what it will lock depends on
\* the front entries.
MonitorScan ==
    /\ lk_prog["monitor"] # << >>
    /\ Head(lk_prog["monitor"])[1] = "scan"
    /\ lk_prog' = [lk_prog EXCEPT !["monitor"] = ScanProgram \o Tail(@)]
    /\ UNCHANGED <<lk_held, lk_waitq, lk_front>>
    /\ UNCHANGED besidesLock

NextLock ==
    \/ \E t \in LockTasks : TaskStart(t)
    \/ \E t \in LockTasks : LockAcquire(t)
    \/ \E t \in LockTasks : LockWait(t)
    \/ \E t \in LockTasks : LockRelease(t)
    \/ \E t \in LockTasks : QueuePush(t)
    \/ MonitorScan

\* Task u holds a guard that keeps t from the lock t is waiting for.
HoldsAgainst(u, t) ==
    /\ AtAcquire(t)
    /\ LET l == Head(lk_prog[t])[2]
           m == Head(lk_prog[t])[3]
       IN  \E h \in lk_held[l] : h[1] = u /\ (m = "w" \/ h[2] = "w")

\* A set of tasks each of which waits for a lock that another one of them holds.
LockCycle ==
    \E S \in SUBSET LockTasks :
        /\ S # {}
        /\ \A t \in S : \E u \in S \ {t} : HoldsAgainst(u, t)

\* C5: no reachable state has tasks waiting forever on each other's locks.
C5_NoLockCycle == ~LockCycle


\* ---------------------------------------------------------------------
\* Part III: KuCoinRateLimiter (src/api/rate_limiter.rs)
\* ---------------------------------------------------------------------

KUCOIN_FUTURES_POOL_LIMIT == 1000

SAFETY_MARGIN_PCT == 80

KUCOIN_WINDOW_SECONDS == 30

CIRCUIT_BREAKER_THRESHOLD_PCT == 90

CIRCUIT_BREAKER_COOLDOWN_MS == 5000

MINIMUM_WAIT_MS == 100

\* RateLimitConfig.max_concurrent, MAX_CONCURRENT_REQUESTS = 20 by default
MaxConcurrent == 2

\* acquire calls each caller makes
MaxCalls == 2

\* RateLimitConfig::default
max_weight_per_window == (KUCOIN_FUTURES_POOL_LIMIT * SAFETY_MARGIN_PCT) \div 100

window_duration == KUCOIN_WINDOW_SECONDS * 1000

\* the weight arguments of acquire, none above max_weight_per_window
Weights == {500, 750}

None == -1

InitRL ==
    /\ rl_now = 0
    /\ request_history = << >>
    /\ semaphore = MaxConcurrent
    /\ circuit_breaker_until = None
    /\ bk_held = {}
    /\ bk_waitq = << >>
    /\ rate_limit_violations = 0
    /\ rl_total_requests = 0
    /\ total_weight_used = 0
    /\ rl_pc = [c \in Callers |-> "idle"]
    /\ rl_weight = [c \in Callers |-> 0]
    /\ rl_permits = [c \in Callers |-> 0]
    /\ rl_wake = [c \in Callers |-> 0]
    /\ rl_calls = [c \in Callers |-> 0]

\* history.iter().map(|r| r.weight).sum()
get_current_window_weight == SumWeights(request_history)

RECURSIVE clean_old_requests(_, _)
\* pops from the front while the front is strictly older than the cutoff
clean_old_requests(history, t) ==
    IF history # << >> /\ Head(history).timestamp < t - window_duration
    THEN clean_old_requests(Tail(history), t)
    ELSE history

calculate_wait_time ==
    IF request_history # << >>
         /\ rl_now - Head(request_history).timestamp < window_duration
    THEN window_duration - (rl_now - Head(request_history).timestamp)
           + MINIMUM_WAIT_MS
    ELSE MINIMUM_WAIT_MS

\* usage_percent >= circuit_breaker_threshold, in whole numbers
breaker_trips(projected_weight) ==
    projected_weight * 100 >= CIRCUIT_BREAKER_THRESHOLD_PCT * max_weight_per_window

\* tokio's RwLock on circuit_breaker_until: readers share, a writer is
\* alone, and the lock is handed out in the order of arrival.
bk_compatible(m) ==
    IF m = "r" THEN \A h \in bk_held : h[2] = "r" ELSE bk_held = {}

bk_queued(c) == \E i \in 1..Len(bk_waitq) : bk_waitq[i][1] = c

bk_can_take(c, m) ==
    /\ bk_compatible(m)
    /\ IF bk_waitq = << >> THEN TRUE ELSE Head(bk_waitq)[1] = c

bk_leave_queue(c) ==
    IF bk_queued(c) THEN Tail(bk_waitq) ELSE bk_waitq

Sleeping(c) == rl_pc[c] \in {"breaker_sleep", "wait_sleep", "cooldown_sleep"}

\* A caller enters acquire(endpoint, weight); callers are numbered in the
\* order of their first call.
RLAcquire(c) ==
    /\ rl_pc[c] = "idle"
    /\ rl_calls[c] < MaxCalls
    /\ \A d \in Callers : d < c => rl_calls[d] > 0
    /\ \E w \in Weights : rl_weight' = [rl_weight EXCEPT ![c] = w]
    /\ rl_calls' = [rl_calls EXCEPT ![c] = @ + 1]
    /\ rl_pc' = [rl_pc EXCEPT ![c] = "breaker"]
    /\ UNCHANGED <<rl_now, request_history, semaphore, circuit_breaker_until,
                   bk_held, bk_waitq, rate_limit_violations, rl_total_requests,
                   total_weight_used, rl_permits, rl_wake>>
    /\ UNCHANGED besidesRL

\* circuit_breaker_until.read() / .write() finds the lock taken: the caller
\* queues for it.
BreakerQueue(c) ==
    /\ rl_pc[c] \in {"breaker", "trip"}
    /\ ~bk_queued(c)
    /\ LET m == IF rl_pc[c] = "breaker" THEN "r" ELSE "w"
       IN  /\ ~bk_can_take(c, m)
           /\ bk_waitq' = Append(bk_waitq, <<c, m>>)
    /\ UNCHANGED <<rl_now, request_history, semaphore, circuit_breaker_until,
                   bk_held, rate_limit_violations, rl_total_requests,
                   total_weight_used, rl_pc, rl_weight, rl_permits, rl_wake,
                   rl_calls>>
    /\ UNCHANGED besidesRL

\* "Check circuit breaker first": with the instant in the future the caller
\* sleeps for the remainder, the read guard alive.
BreakerCheck(c) ==
    /\ rl_pc[c] = "breaker"
    /\ bk_can_take(c, "r")
    /\ bk_waitq' = bk_leave_queue(c)
    /\ IF circuit_breaker_until # None /\ rl_now < circuit_breaker_until
       THEN /\ bk_held' = bk_held \cup {<<c, "r">>}
            /\ rl_wake' = [rl_wake EXCEPT ![c] = circuit_breaker_until]
            /\ rl_pc' = [rl_pc EXCEPT ![c] = "breaker_sleep"]
       ELSE /\ rl_pc' = [rl_pc EXCEPT ![c] = "sem"]
            /\ UNCHANGED <<bk_held, rl_wake>>
    /\ UNCHANGED <<rl_now, request_history, semaphore, circuit_breaker_until,
                   rate_limit_violations, rl_total_requests, total_weight_used,
                   rl_weight, rl_permits, rl_calls>>
    /\ UNCHANGED besidesRL

\* self.semaphore.clone().acquire_owned().await
SemAcquire(c) ==
    /\ rl_pc[c] = "sem"
    /\ semaphore > 0
    /\ semaphore' = semaphore - 1
    /\ rl_permits' = [rl_permits EXCEPT ![c] = @ + 1]
    /\ rl_pc' = [rl_pc EXCEPT ![c] = "clean"]
    /\ UNCHANGED <<rl_now, request_history, circuit_breaker_until, bk_held,
                   bk_waitq, rate_limit_violations, rl_total_requests,
                   total_weight_used, rl_weight, rl_wake, rl_calls>>
    /\ UNCHANGED besidesRL

\* self.clean_old_requests().await
CleanOldRequests(c) ==
    /\ rl_pc[c] = "clean"
    /\ request_history' = clean_old_requests(request_history, rl_now)
    /\ rl_pc' = [rl_pc EXCEPT ![c] = "check"]
    /\ UNCHANGED <<rl_now, semaphore, circuit_breaker_until, bk_held, bk_waitq,
                   rate_limit_violations, rl_total_requests, total_weight_used,
                   rl_weight, rl_permits, rl_wake, rl_calls>>
    /\ UNCHANGED besidesRL

\* "Check if we can make this request" and the breaker threshold: both
\* depend only on the weight read here.
CheckWindow(c) ==
    /\ rl_pc[c] = "check"
    /\ LET projected_weight == get_current_window_weight + rl_weight[c]
       IN  rl_pc' = [rl_pc EXCEPT ![c] =
                        IF projected_weight > max_weight_per_window THEN "wait"
                        ELSE IF breaker_trips(projected_weight) THEN "trip"
                        ELSE "log"]
    /\ UNCHANGED <<rl_now, request_history, semaphore, circuit_breaker_until,
                   bk_held, bk_waitq, rate_limit_violations, rl_total_requests,
                   total_weight_used, rl_weight, rl_permits, rl_wake, rl_calls>>
    /\ UNCHANGED besidesRL

\* "Would exceed limit": the wait time is computed, the violation counted
\* and the caller sleeps, its permit alive.
WaitForWindow(c) ==
    /\ rl_pc[c] = "wait"
    /\ rl_wake' = [rl_wake EXCEPT ![c] = rl_now + calculate_wait_time]
    /\ rate_limit_violations' = rate_limit_violations + 1
    /\ rl_pc' = [rl_pc EXCEPT ![c] = "wait_sleep"]
    /\ UNCHANGED <<rl_now, request_history, semaphore, circuit_breaker_until,
                   bk_held, bk_waitq, rl_total_requests, total_weight_used,
                   rl_weight, rl_permits, rl_calls>>
    /\ UNCHANGED besidesRL

\* "Circuit breaker triggered": the instant is set under the write guard,
\* which stays alive over the cooldown sleep.
TripBreaker(c) ==
    /\ rl_pc[c] = "trip"
    /\ bk_can_take(c, "w")
    /\ bk_waitq' = bk_leave_queue(c)
    /\ bk_held' = bk_held \cup {<<c, "w">>}
    /\ circuit_breaker_until' = rl_now + CIRCUIT_BREAKER_COOLDOWN_MS
    /\ rl_wake' = [rl_wake EXCEPT ![c] = rl_now + CIRCUIT_BREAKER_COOLDOWN_MS]
    /\ rl_pc' = [rl_pc EXCEPT ![c] = "cooldown_sleep"]
    /\ UNCHANGED <<rl_now, request_history, semaphore, rate_limit_violations,
                   rl_total_requests, total_weight_used, rl_weight, rl_permits,
                   rl_calls>>
    /\ UNCHANGED besidesRL

\* A tokio::time::sleep ends. After sleep(remaining) the block ends and the
\* read guard dies; after the cooldown the write guard dies; after the wait
\* for the window, return Box::pin(self.acquire(endpoint, weight)).await:
\* the frame that slept stays alive with its permit and a new frame starts
\* from the top.
SleepEnds(c) ==
    /\ Sleeping(c)
    /\ rl_now >= rl_wake[c]
    /\ bk_held' = bk_held \ {<<c, "r">>, <<c, "w">>}
    /\ rl_wake' = [rl_wake EXCEPT ![c] = 0]
    /\ rl_pc' = [rl_pc EXCEPT ![c] =
                    CASE rl_pc[c] = "breaker_sleep"  -> "sem"
                      [] rl_pc[c] = "cooldown_sleep" -> "log"
                      [] rl_pc[c] = "wait_sleep"     -> "breaker"]
    /\ UNCHANGED <<rl_now, request_history, semaphore, circuit_breaker_until,
                   bk_waitq, rate_limit_violations, rl_total_requests,
                   total_weight_used, rl_weight, rl_permits, rl_calls>>
    /\ UNCHANGED besidesRL

\* "Log the request", the metrics, and Ok(RateLimitGuard): the frames that
\* slept return the inner result and drop their permits, the innermost
\* permit lives on in the guard.
LogRequest(c) ==
    /\ rl_pc[c] = "log"
    /\ request_history' = Append(request_history,
                                 [timestamp |-> rl_now, weight |-> rl_weight[c]])
    /\ rl_total_requests' = rl_total_requests + 1
    /\ total_weight_used' = total_weight_used + rl_weight[c]
    /\ semaphore' = semaphore + (rl_permits[c] - 1)
    /\ rl_permits' = [rl_permits EXCEPT ![c] = 1]
    /\ rl_pc' = [rl_pc EXCEPT ![c] = "guard"]
    /\ UNCHANGED <<rl_now, circuit_breaker_until, bk_held, bk_waitq,
                   rate_limit_violations, rl_weight, rl_wake, rl_calls>>
    /\ UNCHANGED besidesRL

\* the caller drops its RateLimitGuard
DropGuard(c) ==
    /\ rl_pc[c] = "guard"
    /\ semaphore' = semaphore + 1
    /\ rl_permits' = [rl_permits EXCEPT ![c] = 0]
    /\ rl_weight' = [rl_weight EXCEPT ![c] = 0]
    /\ rl_pc' = [rl_pc EXCEPT ![c] = "idle"]
    /\ UNCHANGED <<rl_now, request_history, circuit_breaker_until, bk_held,
                   bk_waitq, rate_limit_violations, rl_total_requests,
                   total_weight_used, rl_wake, rl_calls>>
    /\ UNCHANGED besidesRL

\* The instants at which something changes: a sleep ends, a record has
\* become strictly older than the window.
InstantsRL ==
    {rl_wake[c] : c \in {d \in Callers : Sleeping(d)}}
      \cup {request_history[i].timestamp + window_duration + 1 :
              i \in 1..Len(request_history)}

\* Time passes, to the next instant and never past the end of a sleep.
AdvanceRL ==
    /\ \E t \in InstantsRL :
          /\ t > rl_now
          /\ \A c \in Callers : Sleeping(c) => t <= rl_wake[c]
          /\ rl_now' = t
    /\ UNCHANGED <<request_history, semaphore, circuit_breaker_until, bk_held,
                   bk_waitq, rate_limit_violations, rl_total_requests,
                   total_weight_used, rl_pc, rl_weight, rl_permits, rl_wake,
                   rl_calls>>
    /\ UNCHANGED besidesRL

NextRL ==
    \/ \E c \in Callers : RLAcquire(c)
    \/ \E c \in Callers : BreakerQueue(c)
    \/ \E c \in Callers : BreakerCheck(c)
    \/ \E c \in Callers : SemAcquire(c)
    \/ \E c \in Callers : CleanOldRequests(c)
    \/ \E c \in Callers : CheckWindow(c)
    \/ \E c \in Callers : WaitForWindow(c)
    \/ \E c \in Callers : SleepEnds(c)
    \/ \E c \in Callers : TripBreaker(c)
    \/ \E c \in Callers : LogRequest(c)
    \/ \E c \in Callers : DropGuard(c)
    \/ AdvanceRL

\* The weight of the records whose timestamp lies inside the rolling window.
InWindowRL(r) == r.timestamp >= rl_now - window_duration

RECURSIVE WindowWeightOf(_)
WindowWeightOf(history) ==
    IF history = << >> THEN 0
    ELSE (IF InWindowRL(Head(history)) THEN Head(history).weight ELSE 0)
           + WindowWeightOf(Tail(history))

\* C6: the summed weight of the request_history records inside the rolling
\* window never exceeds max_weight_per_window, whatever the interleaving of
\* the acquire calls.
C6_WindowNeverExceedsMax ==
    WindowWeightOf(request_history) <= max_weight_per_window

\* Every permit is held by a frame that itself waits for a permit, and no
\* guard is out: nothing can ever give a permit back.
GateDeadlock ==
    /\ semaphore = 0
    /\ \E c \in Callers : rl_pc[c] = "sem"
    /\ \A c \in Callers : rl_permits[c] > 0 => rl_pc[c] = "sem"

\* C7: an acquire call with weight <= max_weight_per_window never blocks
\* forever on the concurrency gate.
C7_NeverBlockedForeverAtGate == ~GateDeadlock

\* The breaker is active: circuit_breaker_until lies in the future.
BreakerActive == circuit_breaker_until # None /\ rl_now < circuit_breaker_until

\* C16: while circuit_breaker_until lies in the future no acquire call
\* appends a record or returns a guard, whenever the call was entered.
C16_BreakerSuspendsAll ==
    [][\A c \in Callers :
          (rl_pc[c] = "log" /\ rl_pc'[c] = "guard") => ~BreakerActive]_varsRL

(***************************************************************************)
(* Part IV.  AdaptiveScheduler (src/api/adaptive_scheduler.rs)             *)
(*                                                                         *)
(* Every method takes the one lock on SchedulerState, so each is a step.   *)
(* Instants are counted in clock units of 1/UnitsPerMs ms: Duration has    *)
(* nanoseconds and as_millis() truncates, which a clock in whole ms would  *)
(* not show.                                                               *)
(***************************************************************************)

LIMIT_WINDOW_SECONDS == 30

RESET_BUFFER_MS == 1000

TOTAL_RESET_DURATION_MS == (LIMIT_WINDOW_SECONDS * 1000) + RESET_BUFFER_MS

HEARTBEAT_INTERVAL_MS == 500

OPERATION_SPREAD_PCT == 85

SCHED_THROTTLE_PCT == 75

EMERGENCY_THROTTLE_PCT == 85

COOLDOWN_PCT == 90

HEAVY_ADMIT_PCT == 88

\* AdaptiveScheduler::new(max_weight), 800 in the tests
SCHED_MAX_WEIGHT == 800

\* clock units in one millisecond
UnitsPerMs == 2

\* how late after its tick, in clock units, a heartbeat may run
MaxLatency == 1

\* heartbeats the model follows; 62 periods are TOTAL_RESET_DURATION_MS
MaxBeats == 66

\* record_operation calls, and the heartbeat up to which they are made
MaxOps == 2

RecordBeats == 1

\* the weights of record_operation and can_proceed
SchedWeights == {300, 380}

CooldownStates == {"Active", "Throttled", "HeavyThrottle", "Cooldown", "Resetting"}

\* Duration::from_millis
from_millis(ms) == ms * UnitsPerMs

\* Duration::as_millis
as_millis(d) == d \div UnitsPerMs

\* Duration::saturating_sub
duration_saturating_sub(a, b) == IF a > b THEN a - b ELSE 0

NoResult == [ok |-> FALSE, wait |-> -1]

\* AdaptiveScheduler::new; the first interval.tick() completes at once
InitSched ==
    /\ sch_now = 0
    /\ sch_next_tick = 0
    /\ sch_state = "Active"
    /\ window_start = 0
    /\ cooldown_triggered_at = None
    /\ last_reset = None
    /\ operations = << >>
    /\ sch_total_weight_used = 0
    /\ operations_count = 0
    /\ cooldowns_triggered = 0
    /\ successful_resets = 0
    /\ failed_resets = 0
    /\ cp_result = NoResult

\* an eviction that pops the old records and leaves the total as it was
RECURSIVE clean_old_operations_keeps_total(_, _, _)
clean_old_operations_keeps_total(ops, total, window_cutoff) ==
    IF ops # << >> /\ Head(ops).timestamp < window_cutoff
    THEN clean_old_operations_keeps_total(Tail(ops), total, window_cutoff)
    ELSE [operations |-> ops, total_weight_used |-> total]

\* heartbeat_check, "Clean old operations outside the window"
RECURSIVE clean_old_operations(_, _, _)
clean_old_operations(ops, total, window_cutoff) ==
    IF ops # << >> /\ Head(ops).timestamp < window_cutoff
    THEN clean_old_operations(Tail(ops), saturating_sub(total, Head(ops).weight),
                              window_cutoff)
    ELSE [operations |-> ops, total_weight_used |-> total]

\* heartbeat_check, "Update state based on usage"
usage_state(total) ==
    IF total * 100 >= COOLDOWN_PCT * SCHED_MAX_WEIGHT THEN "Cooldown"
    ELSE IF total * 100 >= EMERGENCY_THROTTLE_PCT * SCHED_MAX_WEIGHT THEN "HeavyThrottle"
    ELSE IF total * 100 >= SCHED_THROTTLE_PCT * SCHED_MAX_WEIGHT THEN "Throttled"
    ELSE "Active"

\* heartbeat_check: remaining.as_millis() == 0, "Time to reset!"
time_to_reset(elapsed) ==
    as_millis(duration_saturating_sub(from_millis(TOTAL_RESET_DURATION_MS), elapsed)) = 0

\* validate_pre_reset
validate_pre_reset(t) ==
    /\ cooldown_triggered_at # None
    /\ ~(as_millis(t - cooldown_triggered_at) < TOTAL_RESET_DURATION_MS)
    /\ sch_state = "Resetting"

\* The heartbeat task holds the write lock between the two halves of a reset.
Locked == sch_state = "Resetting"

\* Time passes to the next tick of the interval, or a little past it when
\* the heartbeat task is scheduled late.
SchedAdvance ==
    /\ ~Locked
    /\ sch_next_tick <= MaxBeats * from_millis(HEARTBEAT_INTERVAL_MS)
    /\ \E l \in 0..MaxLatency :
          /\ sch_next_tick + l > sch_now
          /\ sch_now' = sch_next_tick + l
    /\ cp_result' = NoResult
    /\ UNCHANGED <<sch_next_tick, sch_state, window_start, cooldown_triggered_at,
                   last_reset, operations, sch_total_weight_used,
                   operations_count, cooldowns_triggered, successful_resets,
                   failed_resets>>
    /\ UNCHANGED besidesSched

\* interval.tick() and heartbeat_check up to s.state = Resetting: eviction,
\* then the countdown of a cooldown or the new state by usage.
Heartbeat ==
    /\ ~Locked
    /\ sch_now >= sch_next_tick
    /\ LET ev == clean_old_operations(operations, sch_total_weight_used,
                                      sch_now - from_millis(LIMIT_WINDOW_SECONDS * 1000))
       IN  /\ operations' = ev.operations
           /\ sch_total_weight_used' = ev.total_weight_used
           /\ IF sch_state = "Cooldown"
              THEN /\ IF cooldown_triggered_at # None
                         /\ time_to_reset(sch_now - cooldown_triggered_at)
                      THEN /\ sch_state' = "Resetting"
                           /\ UNCHANGED sch_next_tick
                      ELSE /\ sch_next_tick' = sch_next_tick + from_millis(HEARTBEAT_INTERVAL_MS)
                           /\ UNCHANGED sch_state
                   /\ UNCHANGED <<cooldown_triggered_at, cooldowns_triggered>>
              ELSE /\ sch_state' = usage_state(ev.total_weight_used)
                   /\ sch_next_tick' = sch_next_tick + from_millis(HEARTBEAT_INTERVAL_MS)
                   /\ IF usage_state(ev.total_weight_used) = "Cooldown"
                      THEN /\ cooldown_triggered_at' = sch_now
                           /\ cooldowns_triggered' = cooldowns_triggered + 1
                      ELSE UNCHANGED <<cooldown_triggered_at, cooldowns_triggered>>
    /\ cp_result' = NoResult
    /\ UNCHANGED <<sch_now, window_start, last_reset, operations_count,
                   successful_resets, failed_resets>>
    /\ UNCHANGED besidesSched

\* heartbeat_check from "Validate state before reset" on: the validated
\* reset, or "Fallback: Force reset anyway".
PerformReset ==
    /\ sch_state = "Resetting"
    /\ window_start' = sch_now
    /\ cooldown_triggered_at' = None
    /\ operations' = << >>
    /\ sch_total_weight_used' = 0
    /\ sch_state' = "Active"
    /\ IF validate_pre_reset(sch_now)
       THEN /\ successful_resets' = successful_resets + 1
            /\ last_reset' = sch_now
            /\ UNCHANGED failed_resets
       ELSE /\ failed_resets' = failed_resets + 1
            /\ UNCHANGED <<successful_resets, last_reset>>
    /\ sch_next_tick' = sch_next_tick + from_millis(HEARTBEAT_INTERVAL_MS)
    /\ UNCHANGED <<sch_now, operations_count, cooldowns_triggered, cp_result>>
    /\ UNCHANGED besidesSched

\* AdaptiveScheduler::calculate_jitter: min_ms + (hash % (max_ms - min_ms + 1))
scheduler_jitter(min_ms, max_ms, hash) == min_ms + (hash % (max_ms - min_ms + 1))

\* can_proceed: the match on state.state
can_proceed(weight, hash) ==
    CASE sch_state \in {"Cooldown", "Resetting"} ->
           IF cooldown_triggered_at # None
           THEN [ok |-> FALSE,
                 wait |-> duration_saturating_sub(from_millis(TOTAL_RESET_DURATION_MS),
                                                  sch_now - cooldown_triggered_at)]
           ELSE [ok |-> FALSE, wait |-> from_millis(31 * 1000)]
      [] sch_state = "HeavyThrottle" ->
           IF (sch_total_weight_used + weight) * 100 < HEAVY_ADMIT_PCT * SCHED_MAX_WEIGHT
           THEN [ok |-> TRUE, wait |-> from_millis(scheduler_jitter(400, 800, hash))]
           ELSE [ok |-> FALSE, wait |-> from_millis(1000)]
      [] sch_state = "Throttled" ->
           [ok |-> TRUE, wait |-> from_millis(scheduler_jitter(100, 300, hash))]
      [] sch_state = "Active" ->
           IF sch_total_weight_used * 100 > OPERATION_SPREAD_PCT * SCHED_MAX_WEIGHT
           THEN [ok |-> TRUE, wait |-> from_millis(scheduler_jitter(50, 150, hash))]
           ELSE [ok |-> TRUE, wait |-> from_millis(scheduler_jitter(10, 50, hash))]

\* A caller asks can_proceed(weight).
CanProceedCall ==
    /\ ~Locked
    /\ \E w \in SchedWeights, h \in Hashes : cp_result' = can_proceed(w, h)
    /\ UNCHANGED <<sch_now, sch_next_tick, sch_state, window_start,
                   cooldown_triggered_at, last_reset, operations,
                   sch_total_weight_used, operations_count, cooldowns_triggered,
                   successful_resets, failed_resets>>
    /\ UNCHANGED besidesSched

\* record_operation(weight, operation_type)
RecordOperation ==
    /\ ~Locked
    /\ operations_count < MaxOps
    /\ sch_next_tick <= RecordBeats * from_millis(HEARTBEAT_INTERVAL_MS)
    /\ \E w \in SchedWeights :
          /\ operations' = Append(operations, [timestamp |-> sch_now, weight |-> w])
          /\ sch_total_weight_used' = sch_total_weight_used + w
    /\ operations_count' = operations_count + 1
    /\ cp_result' = NoResult
    /\ UNCHANGED <<sch_now, sch_next_tick, sch_state, window_start,
                   cooldown_triggered_at, last_reset, cooldowns_triggered,
                   successful_resets, failed_resets>>
    /\ UNCHANGED besidesSched

NextSched ==
    \/ SchedAdvance
    \/ Heartbeat
    \/ PerformReset
    \/ CanProceedCall
    \/ RecordOperation

\* record_operation and the heartbeat, with no can_proceed calls
NextSchedOps ==
    \/ SchedAdvance
    \/ Heartbeat
    \/ PerformReset
    \/ RecordOperation

\* record_operation calls of a run that climbs through the throttle states
MixOps == 2

\* the heartbeat up to which they are made: more than RESET_BUFFER_MS after
\* a cooldown triggered at the first heartbeat
MixBeats == 3

\* their weights: 80 + 620 is between 85% and 90% of max_weight, 620 alone
\* between 75% and 85%, 720 is 90%
MixWeights == {80, 620, 720}

\* record_operation(weight, operation_type), in any state of the scheduler,
\* COOLDOWN included: record_operation does not look at state.state
RecordAnyState ==
    /\ ~Locked
    /\ operations_count < MixOps
    /\ sch_next_tick <= MixBeats * from_millis(HEARTBEAT_INTERVAL_MS)
    /\ \E w \in MixWeights :
          /\ operations' = Append(operations, [timestamp |-> sch_now, weight |-> w])
          /\ sch_total_weight_used' = sch_total_weight_used + w
    /\ operations_count' = operations_count + 1
    /\ cp_result' = NoResult
    /\ UNCHANGED <<sch_now, sch_next_tick, sch_state, window_start,
                   cooldown_triggered_at, last_reset, cooldowns_triggered,
                   successful_resets, failed_resets>>
    /\ UNCHANGED besidesSched

\* the heartbeat and record_operation calls with the weights of MixWeights
NextSchedMix ==
    \/ SchedAdvance
    \/ Heartbeat
    \/ PerformReset
    \/ RecordAnyState

\* reset_duration, in clock units
reset_duration == from_millis(TOTAL_RESET_DURATION_MS)

InCooldown == sch_state \in {"Cooldown", "Resetting"}

\* The step clears the window and takes the state back to ACTIVE.
ResetStep == InCooldown /\ sch_state' = "Active"

\* C17: a reset, validated or forced, fires only at a heartbeat at which at
\* least reset_duration has elapsed since cooldown_triggered_at.
C17_ResetOnlyAfterResetDuration ==
    [][ResetStep => /\ cooldown_triggered_at # None
                    /\ sch_now - cooldown_triggered_at >= reset_duration]_varsSched

\* C18: a heartbeat that finds usage >= 90% outside a cooldown takes the
\* state to COOLDOWN, and the scheduler leaves the cooldown with operations
\* empty, total_weight_used 0, state ACTIVE and one more successful reset.
C18_CooldownLifecycle ==
    [][/\ (/\ Heartbeat
           /\ ~InCooldown
           /\ sch_total_weight_used' * 100 >= COOLDOWN_PCT * SCHED_MAX_WEIGHT)
             => sch_state' = "Cooldown"
       /\ (InCooldown /\ ~InCooldown')
             => /\ operations' = << >>
                /\ sch_total_weight_used' = 0
                /\ sch_state' = "Active"
                /\ successful_resets' = successful_resets + 1]_varsSched

\* C19: in COOLDOWN (or RESETTING) can_proceed returns (false, wait) with
\* wait > 0, for every weight and at every instant.
C19_CooldownRefusesWithWait ==
    (InCooldown /\ cp_result # NoResult)
        => (cp_result.ok = FALSE /\ cp_result.wait > 0)

\* C20: cooldown_triggered_at is set in COOLDOWN and unset in every state
\* outside the cooldown; COOLDOWN is entered only from a non-cooldown state;
\* RESETTING is entered only from COOLDOWN after reset_duration has elapsed.
C20_StateInvariant ==
    /\ [](sch_state = "Cooldown" => cooldown_triggered_at # None)
    /\ [](~InCooldown => cooldown_triggered_at = None)
    /\ [][(sch_state # "Cooldown" /\ sch_state' = "Cooldown")
             => ~InCooldown]_varsSched
    /\ [][(sch_state # "Resetting" /\ sch_state' = "Resetting")
             => /\ sch_state = "Cooldown"
                /\ sch_now - cooldown_triggered_at >= reset_duration]_varsSched

\* get_stats: operations_in_window: state.operations.len()
operations_in_window == Len(operations)

RECURSIVE SumOpWeights(_)
SumOpWeights(ops) ==
    IF ops = << >> THEN 0 ELSE Head(ops).weight + SumOpWeights(Tail(ops))

\* C21: after any sequence of record_operation calls, evictions and resets,
\* total_weight_used is the sum of the weights of the records in operations
\* and operations_in_window is their number.
C21_TotalIsSumOfOperations ==
    /\ sch_total_weight_used = SumOpWeights(operations)
    /\ operations_in_window = Cardinality(DOMAIN operations)

\* A heartbeat has evicted the first of two records and kept the second.
C21_Witness ==
    /\ operations_count = 2
    /\ Len(operations) = 1
    /\ sch_total_weight_used > 0
    /\ sch_now >= from_millis(LIMIT_WINDOW_SECONDS * 1000)

(***************************************************************************)
(* Part V.  process_queues on its own (unified_rate_controller.rs 345-406) *)
(*                                                                         *)
(* process_queues is an associated function of its four arguments.  Here   *)
(* it is applied to queues, counters and a throttle state drawn from small *)
(* sets, one priority of its for loop per step, so that the order of the   *)
(* grants inside one call can be seen.                                     *)
(***************************************************************************)

\* the longest queue process_queues is given; above the largest
\* max_to_process
MaxQueued == 11

\* current_usage when process_queues is called
PQUsages == {0, 500, 700}

\* The k-th entry queued with a priority: the weight is the same for all and
\* the category goes with the priority.
QueuedEntry(p, k) ==
    [priority  |-> p,
     category  |-> CASE p = "Critical" -> "Trading"
                     [] p = "High"     -> "Scanning"
                     [] p = "Medium"   -> "Administrative"
                     [] p = "Low"      -> "Trading",
     weight    |-> 10,
     queued_at |-> 0,
     sender    |-> <<p, k>>]

PQSenders == Priorities \X (1..MaxQueued)

PQEmpty ==
    [queues    |-> [p \in Priorities |-> << >>],
     usage     |-> 0,
     cat_usage |-> [k \in Categories |-> 0],
     channel   |-> [c \in PQSenders |-> "open"]]

InitPQ ==
    /\ pq_in = PQEmpty
    /\ pq_st = PQEmpty
    /\ pq_throttle = "Normal"
    /\ pq_i = 0
    /\ pq_log = << >>

\* process_queues is called: queues.write(), throttle_state.read()
PQCall ==
    /\ pq_i = 0
    /\ \E len \in [Priorities -> {0, 1, MaxQueued}], u \in PQUsages :
          LET found == [queues    |-> [p \in Priorities |->
                                          [k \in 1..len[p] |-> QueuedEntry(p, k)]],
                        usage     |-> u,
                        cat_usage |-> [k \in Categories |->
                                          IF k = "Trading" THEN u ELSE 0],
                        channel   |-> [c \in PQSenders |-> "open"]]
          IN  /\ pq_in' = found
              /\ pq_st' = found
    /\ pq_throttle' \in ThrottleStates
    /\ pq_i' = 1
    /\ UNCHANGED pq_log
    /\ UNCHANGED besidesPQ

\* One pass of "for priority in [Critical, High, Medium, Low]"
PQDrain ==
    /\ pq_i \in 1..Len(PriorityOrder)
    /\ LET p  == PriorityOrder[pq_i]
           st == drain_queue(pq_st, p, 0, max_to_process(pq_throttle))
           n  == Len(pq_st.queues[p]) - Len(st.queues[p])
       IN  /\ pq_st' = st
           /\ pq_log' = pq_log \o [k \in 1..n |-> p]
    /\ pq_i' = pq_i + 1
    /\ UNCHANGED <<pq_in, pq_throttle>>
    /\ UNCHANGED besidesPQ

NextPQ ==
    \/ PQCall
    \/ PQDrain

\* the position of a priority in the order of the for loop
Rank(p) == CHOOSE i \in 1..Len(PriorityOrder) : PriorityOrder[i] = p

\* max_drain[state]
max_drain ==
    [t \in ThrottleStates |->
        CASE t = "Normal" -> 10 [] t = "Moderate" -> 5
          [] t = "Heavy" -> 2   [] t = "Emergency" -> 1]

GrantsTo(p) == Cardinality({i \in 1..Len(pq_log) : pq_log[i] = p})

MaxTicks == 103

\* ticks during which update_metrics and reset_to_defaults are still called
MaxFreeTicks == 3

\* VecDeque::with_capacity(1000); if hist.len() > 1000 { pop_front }
HISTORY_CAP == 1000

\* interval(Duration::from_secs(60))
OPTIMIZE_EVERY_SECS == 60

\* f64::max, Ord::max
max_of(a, b) == IF a >= b THEN a ELSE b

\* f64::min, Ord::min
min_of(a, b) == IF a <= b THEN a ELSE b

\* SafetyBounds::default
default_bounds ==
    [min_capacity_percent   |-> 600000,
     max_capacity_percent   |-> 950000,
     min_scan_interval_secs |-> 300,
     max_scan_interval_secs |-> 7200,
     min_batch_size         |-> 5,
     max_batch_size         |-> 50]

\* DynamicParameters::default
default_parameters ==
    [capacity_target    |-> 750000,
     throttle_threshold |-> 800000,
     recovery_threshold |-> 600000,
     scan_interval_secs |-> 3600,
     batch_size         |-> 20,
     priority_boost     |-> 1000]

\* AdaptiveOptimizer::initial_metrics
initial_metrics ==
    [accuracy_rate          |-> 1000,
     failed_operations      |-> 0,
     api_errors             |-> 0,
     rate_limit_hits        |-> 0,
     reliability_score      |-> 1000,
     avg_response_time_ms   |-> 100,
     capacity_usage_percent |-> 0,
     overall_satisfaction   |-> 1000]

\* What update_metrics is called with: the initial metrics with accuracy
\* 0.999; the same with faster responses and accuracy 0.995; low
\* satisfaction alone; and every figure poor.
MetricsSet ==
    { [initial_metrics EXCEPT !.accuracy_rate = 999],
      [initial_metrics EXCEPT !.accuracy_rate = 995, !.avg_response_time_ms = 90],
      [initial_metrics EXCEPT !.overall_satisfaction = 700],
      [accuracy_rate          |-> 900,
       failed_operations      |-> 20,
       api_errors             |-> 6,
       rate_limit_hits        |-> 1,
       reliability_score      |-> 900,
       avg_response_time_ms   |-> 600,
       capacity_usage_percent |-> 900000,
       overall_satisfaction   |-> 700] }

\* AdaptiveOptimizer::new
InitOpt ==
    /\ current_parameters = default_parameters
    /\ current_metrics = initial_metrics
    /\ opt_history = << >>
    /\ opt_stats = [total_adjustments |-> 0, safety_bounds_hits |-> 0,
                    time_since_last_adjustment |-> 0]
    /\ opt_ticks = 0
    /\ opt_held_ticks = 0
    /\ opt_outcome = "none"

\* recent.windows(2).filter(..).count() over the last 10 snapshots, newest
\* first: holds[i] is the filter on the pair of hist[i] (newer) and
\* hist[i - 1] (older).
CountWindows(hist, holds) ==
    LET n == Len(hist)
    IN  Cardinality({i \in (n - 8)..n : holds[i]})

AbsDiff(a, b) == IF a >= b THEN a - b ELSE b - a

\* calculate_trend
calculate_trend(hist) ==
    IF Len(hist) < 10
    THEN [accuracy_improving |-> FALSE, reliability_improving |-> FALSE,
          performance_stable |-> FALSE, capacity_stable |-> FALSE]
    ELSE [accuracy_improving |->
              CountWindows(hist, [i \in 2..Len(hist) |->
                  hist[i].accuracy_rate > hist[i - 1].accuracy_rate]) > 5,
          reliability_improving |->
              CountWindows(hist, [i \in 2..Len(hist) |->
                  hist[i].reliability_score > hist[i - 1].reliability_score]) > 5,
          performance_stable |->
              CountWindows(hist, [i \in 2..Len(hist) |->
                  AbsDiff(hist[i].avg_response_time_ms,
                          hist[i - 1].avg_response_time_ms) < 50]) > 7,
          capacity_stable |->
              CountWindows(hist, [i \in 2..Len(hist) |->
                  AbsDiff(hist[i].capacity_usage_percent,
                          hist[i - 1].capacity_usage_percent) < 100000]) > 7]

\* (x as f64 * (num / den)) as usize, and the f64 products
scaled(x, num, den) == (x * num) \div den

\* analyze_and_optimize, "1. ACCURACY OPTIMIZATION"
opt_accuracy(st, m, b, trend) ==
    IF m.accuracy_rate < 950 /\ m.failed_operations > 10
    THEN [adjusted |-> TRUE,
          params |-> [st.params EXCEPT
             !.batch_size = max_of(scaled(@, 8, 10), b.min_batch_size),
             !.scan_interval_secs = min_of(scaled(@, 12, 10), b.max_scan_interval_secs)]]
    ELSE IF m.accuracy_rate > 990 /\ trend.accuracy_improving
    THEN [adjusted |-> TRUE,
          params |-> [st.params EXCEPT
             !.batch_size = min_of(scaled(@, 11, 10), b.max_batch_size),
             !.scan_interval_secs = max_of(scaled(@, 9, 10), b.min_scan_interval_secs)]]
    ELSE st

\* "2. RELIABILITY OPTIMIZATION"
opt_reliability(st, m, b) ==
    IF m.rate_limit_hits > 0 \/ m.api_errors > 5
    THEN [adjusted |-> TRUE,
          params |-> [st.params EXCEPT
             !.capacity_target = max_of(scaled(@, 85, 100), b.min_capacity_percent),
             !.throttle_threshold = scaled(@, 90, 100),
             !.batch_size = max_of(scaled(@, 75, 100), b.min_batch_size)]]
    ELSE IF m.reliability_score > 980 /\ m.rate_limit_hits = 0
    THEN [adjusted |-> TRUE,
          params |-> [st.params EXCEPT
             !.capacity_target = min_of(scaled(@, 105, 100), b.max_capacity_percent),
             !.throttle_threshold = min_of(scaled(@, 105, 100), 950000)]]
    ELSE st

\* "3. PERFORMANCE OPTIMIZATION"
opt_performance(st, m, b, trend) ==
    IF m.avg_response_time_ms > 500
    THEN [adjusted |-> TRUE,
          params |-> [st.params EXCEPT
             !.batch_size = max_of(scaled(@, 9, 10), b.min_batch_size),
             !.capacity_target = scaled(@, 95, 100)]]
    ELSE IF m.avg_response_time_ms < 100 /\ trend.performance_stable
    THEN [adjusted |-> TRUE,
          params |-> [st.params EXCEPT
             !.batch_size = min_of(scaled(@, 105, 100), b.max_batch_size)]]
    ELSE st

\* "4. CAPACITY OPTIMIZATION"
opt_capacity(st, m, b, trend) ==
    IF m.capacity_usage_percent > 850000
    THEN [adjusted |-> TRUE,
          params |-> [st.params EXCEPT
             !.throttle_threshold = m.capacity_usage_percent - 100000,
             !.recovery_threshold = m.capacity_usage_percent - 100000 - 150000,
             !.scan_interval_secs = min_of(scaled(@, 13, 10), b.max_scan_interval_secs)]]
    ELSE IF m.capacity_usage_percent < 400000 /\ trend.capacity_stable
    THEN [adjusted |-> TRUE,
          params |-> [st.params EXCEPT
             !.throttle_threshold = min_of(scaled(@, 110, 100), 900000),
             !.scan_interval_secs = max_of(scaled(@, 85, 100), b.min_scan_interval_secs)]]
    ELSE st

\* "5. USER SATISFACTION OPTIMIZATION"
opt_satisfaction(st, m) ==
    IF m.overall_satisfaction < 800
    THEN [adjusted |-> TRUE,
          params |-> [st.params EXCEPT
             !.priority_boost = 1500,
             !.scan_interval_secs = scaled(@, 9, 10),
             !.batch_size = scaled(@, 9, 10)]]
    ELSE IF m.overall_satisfaction > 950
    THEN [st EXCEPT !.params.priority_boost = 1000]
    ELSE st

\* A check of the upper bounds alone.
within_safety_bounds_upper_only(params, bounds) ==
    /\ params.capacity_target <= bounds.max_capacity_percent
    /\ params.scan_interval_secs <= bounds.max_scan_interval_secs
    /\ params.batch_size <= bounds.max_batch_size

\* within_safety_bounds
within_safety_bounds(params, bounds) ==
    /\ params.capacity_target >= bounds.min_capacity_percent
    /\ params.capacity_target <= bounds.max_capacity_percent
    /\ params.scan_interval_secs >= bounds.min_scan_interval_secs
    /\ params.scan_interval_secs <= bounds.max_scan_interval_secs
    /\ params.batch_size >= bounds.min_batch_size
    /\ params.batch_size <= bounds.max_batch_size

\* analyze_and_optimize up to "Safety check": the proposal
proposal(metrics, current_params, safety_bounds, hist) ==
    LET trend == calculate_trend(hist)
        s0 == [adjusted |-> FALSE, params |-> current_params]
        s1 == opt_accuracy(s0, metrics, safety_bounds, trend)
        s2 == opt_reliability(s1, metrics, safety_bounds)
        s3 == opt_performance(s2, metrics, safety_bounds, trend)
        s4 == opt_capacity(s3, metrics, safety_bounds, trend)
    IN  opt_satisfaction(s4, metrics)

\* analyze_and_optimize: Some(new_params), or None
analyze_and_optimize(metrics, current_params, safety_bounds, hist) ==
    LET p == proposal(metrics, current_params, safety_bounds, hist)
    IN  IF p.adjusted /\ within_safety_bounds(p.params, safety_bounds)
        THEN [some |-> TRUE, new_params |-> p.params]
        ELSE [some |-> FALSE, new_params |-> current_params]

\* hist.push_back(snapshot); if hist.len() > 1000 { hist.pop_front(); }
push_snapshot(hist, snapshot) ==
    LET pushed == Append(hist, snapshot)
    IN  IF Len(pushed) > HISTORY_CAP THEN Tail(pushed) ELSE pushed

\* One iteration of the loop of start_optimization.
OptimizerTick ==
    /\ opt_ticks < MaxTicks
    /\ LET metrics == current_metrics
           params  == current_parameters
           p == proposal(metrics, params, default_bounds, opt_history)
           r == analyze_and_optimize(metrics, params, default_bounds, opt_history)
       IN  /\ IF r.some
              THEN /\ opt_history' = push_snapshot(opt_history, metrics)
                   /\ current_parameters' = r.new_params
                   /\ opt_stats' = [opt_stats EXCEPT
                                      !.total_adjustments = @ + 1,
                                      !.time_since_last_adjustment = 0]
              ELSE /\ opt_stats' = [opt_stats EXCEPT
                                      !.time_since_last_adjustment =
                                          @ + OPTIMIZE_EVERY_SECS]
                   /\ UNCHANGED <<opt_history, current_parameters>>
           /\ opt_outcome' = IF r.some THEN "installed"
                             ELSE IF p.adjusted THEN "rejected"
                             ELSE "unchanged"
    /\ opt_ticks' = opt_ticks + 1
    /\ opt_held_ticks' = IF current_metrics.accuracy_rate = 999
                         THEN opt_held_ticks + 1 ELSE 0
    /\ UNCHANGED current_metrics
    /\ UNCHANGED besidesOpt

\* update_metrics(metrics)
UpdateMetrics ==
    /\ opt_ticks < MaxFreeTicks
    /\ \E m \in MetricsSet :
          /\ m # current_metrics
          /\ current_metrics' = m
    /\ UNCHANGED <<current_parameters, opt_history, opt_stats, opt_ticks,
                   opt_held_ticks, opt_outcome>>
    /\ UNCHANGED besidesOpt

\* reset_to_defaults
ResetToDefaults ==
    /\ opt_ticks < MaxFreeTicks
    /\ current_parameters # default_parameters
    /\ current_parameters' = default_parameters
    /\ UNCHANGED <<current_metrics, opt_history, opt_stats, opt_ticks,
                   opt_held_ticks, opt_outcome>>
    /\ UNCHANGED besidesOpt

NextOpt ==
    \/ OptimizerTick
    \/ UpdateMetrics
    \/ ResetToDefaults

\* The Safety Bounds: capacity_target, scan_interval_secs and batch_size
\* each within [min, max].
InSafetyBounds(params) ==
    /\ params.capacity_target \in
          default_bounds.min_capacity_percent..default_bounds.max_capacity_percent
    /\ params.scan_interval_secs \in
          default_bounds.min_scan_interval_secs..default_bounds.max_scan_interval_secs
    /\ params.batch_size \in
          default_bounds.min_batch_size..default_bounds.max_batch_size

\* What the tick proposes from the state it starts in.
Proposed ==
    proposal(current_metrics, current_parameters, default_bounds, opt_history)

\* The tick has a proposal with a parameter outside the Safety Bounds.
ProposalOutOfBounds == Proposed.adjusted /\ ~InSafetyBounds(Proposed.params)

\* C26: every parameter set the optimizer loop installs satisfies the Safety
\* Bounds, and a proposal with a parameter outside its bounds is discarded
\* with current_parameters unchanged.
C26_InstallsOnlyWithinBounds ==
    [][OptimizerTick =>
         /\ current_parameters' # current_parameters
               => InSafetyBounds(current_parameters')
         /\ ProposalOutOfBounds
               => current_parameters' = current_parameters]_varsOpt

\* The loop has installed a parameter set and, at a later tick, discarded a
\* proposal.
C26_Witness ==
    /\ opt_stats.total_adjustments >= 1
    /\ current_parameters # default_parameters
    /\ opt_outcome = "rejected"

\* C27: each proposal that falls outside the Safety Bounds increments
\* safety_bounds_hits by one.
C27_RejectionsAreCounted ==
    [][(OptimizerTick /\ ProposalOutOfBounds)
          => opt_stats'.safety_bounds_hits = opt_stats.safety_bounds_hits + 1]_varsOpt

\* C28: with accuracy held at 0.999 on every consecutive tick, batch_size
\* never decreases from tick to tick, never exceeds max_batch_size, and has
\* reached max_batch_size after 100 such ticks.
C28_BatchSizeRisesToMax ==
    /\ [][(OptimizerTick /\ current_metrics.accuracy_rate = 999)
             => current_parameters'.batch_size >= current_parameters.batch_size]_varsOpt
    /\ [](current_parameters.batch_size <= default_bounds.max_batch_size)
    /\ [](opt_held_ticks >= 100
             => current_parameters.batch_size = default_bounds.max_batch_size)

(***************************************************************************)
(* Part VII.  PreTradeValidator (src/core/integration/pre_trade_validator.rs)*)
(* and DataQualityManager (src/core/integration/data_quality.rs)           *)
(*                                                                         *)
(* One validation of one TradeContext.  An f64 is a record with its kind   *)
(* (finite, nan, inf) and, when finite, a whole number: prices and volumes *)
(* in dollars, completeness in ten-thousandths, liquidity_score in tenths, *)
(* confidence_score in hundredths.  The reason and the score of a check or *)
(* a layer are left out.                                                   *)
(***************************************************************************)

Finite(v) == [kind |-> "finite", v |-> v]

\* f64::is_finite
is_finite(x) == x.kind = "finite"

\* x > bound for an f64 x: false for NaN
f64_gt(x, bound) ==
    CASE x.kind = "finite" -> x.v > bound
      [] x.kind = "inf"    -> TRUE
      [] x.kind = "nan"    -> FALSE

\* data.price
Prices == {Finite(50000), Finite(0), Finite(-1),
           [kind |-> "inf", v |-> 0], [kind |-> "nan", v |-> 0]}

\* UnifiedMarketData, the fields the checks read
MarketData ==
    [price             : Prices,
     mark_price        : {0, 50000},
     data_freshness_ms : {4999, 5000, 6000},
     completeness      : {9900, 9950},
     is_delisted       : BOOLEAN,
     ask_minus_bid     : {10, 300},
     volume_24h        : {0, 500, 2000},
     liquidity_score   : {5, 8},
     book_volume       : {5000, 20000},
     funding_rate      : {0, 1}]

\* TradeContext
TradeContexts ==
    [market_data      : MarketData,
     account_balance  : {5, 1000},
     open_positions   : {0, 3},
     daily_pnl        : {0, -60},
     confidence_score : {70, 75}]

NoContext == [market_data |-> "none"]

\* UnifiedMarketData::spread_bps() < limit, with the spread
\* ((best_ask - best_bid) / price) * 10000.0, or 9999.0 at price 0
spread_below(data, limit) ==
    CASE data.price.kind = "nan" -> FALSE
      [] data.price.kind = "inf" -> 0 < limit
      [] data.price.v = 0        -> 9999 < limit
      [] data.price.v > 0        -> data.ask_minus_bid * 10000 < limit * data.price.v
      [] data.price.v < 0        -> data.ask_minus_bid * 10000 > limit * data.price.v

\* UnifiedMarketData::liquidity_adequate
liquidity_adequate(data) == data.liquidity_score > 5 /\ data.book_volume > 10000

\* DataQualityManager::new
max_staleness_ms == 5000

QualityCheck(name, level, passed) == [name |-> name, level |-> level, passed |-> passed]

\* DataQualityManager::validate: the nine checks, in the order they are
\* pushed.  Critical: check_price_validity, check_data_freshness,
\* check_completeness, check_not_delisted.  Important:
\* check_spread_reasonable, check_volume_present, check_liquidity_adequate.
\* Optional: check_funding_rate_present, check_mark_price_present.
quality_validate(data) ==
    << QualityCheck("Price Validity", "Critical",
                    f64_gt(data.price, 0) /\ is_finite(data.price)),
       QualityCheck("Data Freshness", "Critical",
                    data.data_freshness_ms < max_staleness_ms),
       QualityCheck("Data Completeness", "Critical", data.completeness > 9900),
       QualityCheck("Not Delisted", "Critical", ~data.is_delisted),
       QualityCheck("Spread Reasonable", "Important", spread_below(data, 50)),
       QualityCheck("Volume Present", "Important", data.volume_24h > 0),
       QualityCheck("Liquidity Adequate", "Important", liquidity_adequate(data)),
       QualityCheck("Funding Rate", "Optional", data.funding_rate # 0),
       QualityCheck("Mark Price", "Optional", data.mark_price > 0) >>

\* the checks of one level, and those of them that passed
OfLevel(checks, level) == {i \in 1..Len(checks) : checks[i].level = level}

PassedOfLevel(checks, level) == {i \in OfLevel(checks, level) : checks[i].passed}

\* A validity test that looks at the critical checks alone.
is_valid_critical_only(checks) ==
    \A i \in OfLevel(checks, "Critical") : checks[i].passed

\* DataQualityManager::is_valid: every critical check passed, and
\* important_pass_rate >= 0.8 when there are important checks
is_valid(checks) ==
    /\ \A i \in OfLevel(checks, "Critical") : checks[i].passed
    /\ OfLevel(checks, "Important") # {}
          => ~(Cardinality(PassedOfLevel(checks, "Important")) * 10
                  < 8 * Cardinality(OfLevel(checks, "Important")))

ValidationResult(layer, passed) == [layer |-> layer, passed |-> passed]

validate_data_quality(context) ==
    ValidationResult("DataQuality", is_valid(quality_validate(context.market_data)))

\* max_spread_bps 50.0, min_liquidity_usd 10000.0
validate_market_conditions(context) ==
    LET data == context.market_data
        spread_ok == spread_below(data, 50)
        liquidity_ok == data.book_volume > 10000
        volume_ok == data.volume_24h > 1000
    IN  ValidationResult("MarketConditions", spread_ok /\ liquidity_ok /\ volume_ok)

\* daily_pnl > -(account_balance * 0.05)
validate_risk_limits(context) ==
    LET balance_ok == context.account_balance > 10
        positions_ok == context.open_positions < 3
        daily_loss_ok == context.daily_pnl * 100 > -(context.account_balance * 5)
    IN  ValidationResult("RiskLimits", balance_ok /\ positions_ok /\ daily_loss_ok)

validate_regulatory(context) ==
    LET not_delisted == ~context.market_data.is_delisted
        trading_hours == TRUE
    IN  ValidationResult("Regulatory", not_delisted /\ trading_hours)

\* min_confidence 0.75
validate_confidence(context) ==
    ValidationResult("Confidence", context.confidence_score >= 75)

\* PreTradeValidator::validate: the five results, pushed in this order; no
\* layer returns Err, so no ? returns early
validate(context) ==
    << validate_data_quality(context), validate_market_conditions(context),
       validate_risk_limits(context), validate_regulatory(context),
       validate_confidence(context) >>

\* A gate that asks only for the first layer.
can_trade_first_layer(results) == results[1].passed

\* PreTradeValidator::can_trade
can_trade(results) == \A i \in 1..Len(results) : results[i].passed

InitPTV ==
    /\ ptv_context = NoContext
    /\ ptv_checks = << >>
    /\ ptv_results = << >>
    /\ ptv_can_trade = FALSE

\* The trading loop validates a context: validator.validate(&context), then
\* validator.can_trade(&results).
ValidateTrade ==
    /\ ptv_context = NoContext
    /\ \E context \in TradeContexts :
          /\ ptv_context' = context
          /\ ptv_checks' = quality_validate(context.market_data)
          /\ ptv_results' = validate(context)
          /\ ptv_can_trade' = can_trade(validate(context))
    /\ UNCHANGED besidesPTV

NextPTV ==
    \/ ValidateTrade

Validated == ptv_context # NoContext

\* C29: validate evaluates all five layers, in the order DataQuality,
\* MarketConditions, RiskLimits, Regulatory, Confidence, and can_trade is
\* true exactly when every one of the five results passed.
C29_AllFiveLayersGate ==
    Validated =>
       /\ [i \in 1..Len(ptv_results) |-> ptv_results[i].layer]
             = << "DataQuality", "MarketConditions", "RiskLimits",
                  "Regulatory", "Confidence" >>
       /\ ptv_can_trade <=> ~(\E i \in 1..5 : ~ptv_results[i].passed)

\* A validation in which the last layer alone failed, and the trade is
\* blocked.
C29_Witness ==
    /\ Validated
    /\ \A i \in 1..4 : ptv_results[i].passed
    /\ ~ptv_results[5].passed
    /\ ~ptv_can_trade

\* The four CRITICAL sub-checks, on the market data itself.
CriticalSubChecksPass(data) ==
    /\ data.price.kind = "finite" /\ data.price.v > 0
    /\ data.data_freshness_ms < 5000
    /\ data.completeness > 9900
    /\ ~data.is_delisted

\* C30: the Data Quality layer passes exactly when all four CRITICAL
\* sub-checks pass and at least 80% of the IMPORTANT sub-checks pass; a
\* context with freshness = 6000 ms fails the layer.
C30_DataQualityLayer ==
    Validated =>
       /\ ptv_results[1].passed <=>
             /\ CriticalSubChecksPass(ptv_context.market_data)
             /\ Cardinality(PassedOfLevel(ptv_checks, "Important")) * 100
                   >= 80 * Cardinality(OfLevel(ptv_checks, "Important"))
       /\ ptv_context.market_data.data_freshness_ms = 6000
             => ~ptv_results[1].passed

\* A context that is 6000 ms old and passes every other check of the layer
\* has been refused by the layer.
C30_Witness ==
    /\ Validated
    /\ ptv_context.market_data.data_freshness_ms = 6000
    /\ \A i \in 1..Len(ptv_checks) :
          ptv_checks[i].name # "Data Freshness" => ptv_checks[i].passed
    /\ ~ptv_results[1].passed

(***************************************************************************)
(* Part VIII.  calculate_jitter of the controller and of the scheduler,    *)
(* and the delay grant_permit computes with it.                            *)
(*                                                                         *)
(* The functions are called with constant arguments only; the arguments    *)
(* below are those and every pair min_ms <= max_ms up to MaxJitterMs.  The *)
(* hash is any u64; the values below stand for it.                         *)
(***************************************************************************)

\* the largest min_ms and max_ms of the pairs tried besides the call sites'
MaxJitterMs == 6

\* hasher.finish()
JitterHashes == {0, 1, 5, 6, 7, 300, 1000, 65535, 2147483647}

\* the (min_ms, max_ms) of the call sites of the scheduler's can_proceed
SchedulerJitterArgs == {<<10, 50>>, <<50, 150>>, <<100, 300>>, <<400, 800>>}

JitterArgs ==
    {a \in (0..MaxJitterMs) \X (0..MaxJitterMs) : a[1] <= a[2]}
       \cup SchedulerJitterArgs
       \cup {<<base_delay_ms(t) \div 2, base_delay_ms(t) * 2>> : t \in ThrottleStates}

NoJitterCall == [kind |-> "none", min_ms |-> 0, max_ms |-> 0, hash |-> 0]

InitJit ==
    /\ jit_call = NoJitterCall
    /\ jit_out = 0

\* UnifiedRateController::calculate_jitter(min_ms, max_ms)
ControllerJitter ==
    /\ jit_call = NoJitterCall
    /\ \E a \in JitterArgs, h \in JitterHashes :
          /\ jit_call' = [kind |-> "controller", min_ms |-> a[1], max_ms |-> a[2],
                          hash |-> h]
          /\ jit_out' = calculate_jitter(a[1], a[2], h)
    /\ UNCHANGED besidesJit

\* AdaptiveScheduler::calculate_jitter(min_ms, max_ms)
SchedulerJitter ==
    /\ jit_call = NoJitterCall
    /\ \E a \in JitterArgs, h \in JitterHashes :
          /\ jit_call' = [kind |-> "scheduler", min_ms |-> a[1], max_ms |-> a[2],
                          hash |-> h]
          /\ jit_out' = scheduler_jitter(a[1], a[2], h)
    /\ UNCHANGED besidesJit

\* grant_permit in the throttle state t: the delay of the permit.  min_ms is
\* used for the base delay of t.
GrantDelay ==
    /\ jit_call = NoJitterCall
    /\ \E t \in ThrottleStates, h \in JitterHashes :
          /\ jit_call' = [kind |-> t, min_ms |-> base_delay_ms(t),
                          max_ms |-> base_delay_ms(t), hash |-> h]
          /\ jit_out' = calculate_jitter(base_delay_ms(t) \div 2,
                                         base_delay_ms(t) * 2, h)
    /\ UNCHANGED besidesJit

NextJit ==
    \/ ControllerJitter
    \/ SchedulerJitter
    \/ GrantDelay

\* The base delay the claim gives each pressure state, in ms.
ClaimedBase(t) ==
    CASE t = "Normal" -> 10 [] t = "Moderate" -> 50
      [] t = "Heavy" -> 200 [] t = "Emergency" -> 500

\* C32: the output of both calculate_jitter functions is within [min, max]
\* for min <= max, and the delay of a granted permit is within
\* [base/2, base*2] ms for the base of the pressure state.
C32_JitterWithinRange ==
    /\ jit_call.kind \in {"controller", "scheduler"}
          => jit_call.min_ms <= jit_out /\ jit_out <= jit_call.max_ms
    /\ jit_call.kind \in ThrottleStates
          => /\ ClaimedBase(jit_call.kind) \div 2 <= jit_out
             /\ jit_out <= ClaimedBase(jit_call.kind) * 2

\* A grant under HEAVY pressure whose hash leaves the largest remainder: the
\* delay is base * 2.
C32_Witness ==
    /\ jit_call.kind = "Heavy"
    /\ jit_out = 400

(***************************************************************************)
(* Part IX.  The loop of AdaptiveOptimizer::start_optimization, with the   *)
(* locks it takes: the read guards on current_metrics and                  *)
(* current_parameters are dropped at the end of their statements, and the  *)
(* write guard on current_parameters is taken after analyze_and_optimize   *)
(* has returned.  update_metrics and reset_to_defaults of other tasks run  *)
(* in between.                                                             *)
(***************************************************************************)

\* iterations of the loop the model follows step by step
RaceTicks == 4

\* what a step of the loop leaves alone
besidesOptTick ==
    <<varsURC, varsLock, varsRL, varsSched, varsPQ, varsPTV, varsJit,
      varsBus, varsSRL>>

besidesBus ==
    <<varsURC, varsLock, varsRL, varsSched, varsPQ, varsOpt, varsPTV,
      varsJit, varsTick, varsSRL>>

InitTick ==
    /\ tick_pc = "idle"
    /\ tick_metrics = initial_metrics
    /\ tick_params = default_parameters

\* interval.tick().await, then "Capture current state"
TickCapture ==
    /\ tick_pc = "idle"
    /\ opt_ticks < RaceTicks
    /\ tick_metrics' = current_metrics
    /\ tick_params' = current_parameters
    /\ tick_pc' = "analysing"
    /\ UNCHANGED varsOpt
    /\ UNCHANGED besidesOptTick

\* analyze_and_optimize(&metrics, &params, ..) on the captured state, then
\* the rest of the iteration
TickApply ==
    /\ tick_pc = "analysing"
    /\ LET p == proposal(tick_metrics, tick_params, default_bounds, opt_history)
           r == analyze_and_optimize(tick_metrics, tick_params, default_bounds,
                                     opt_history)
       IN  /\ IF r.some
              THEN /\ opt_history' = push_snapshot(opt_history, tick_metrics)
                   /\ current_parameters' = r.new_params
                   /\ opt_stats' = [opt_stats EXCEPT
                                      !.total_adjustments = @ + 1,
                                      !.time_since_last_adjustment = 0]
              ELSE /\ opt_stats' = [opt_stats EXCEPT
                                      !.time_since_last_adjustment =
                                          @ + OPTIMIZE_EVERY_SECS]
                   /\ UNCHANGED <<opt_history, current_parameters>>
           /\ opt_outcome' = IF r.some THEN "installed"
                             ELSE IF p.adjusted THEN "rejected"
                             ELSE "unchanged"
    /\ opt_ticks' = opt_ticks + 1
    /\ opt_held_ticks' = IF tick_metrics.accuracy_rate = 999
                         THEN opt_held_ticks + 1 ELSE 0
    /\ tick_pc' = "idle"
    /\ tick_metrics' = initial_metrics
    /\ tick_params' = default_parameters
    /\ UNCHANGED current_metrics
    /\ UNCHANGED besidesOptTick

NextOptRace ==
    \/ TickCapture
    \/ TickApply
    \/ UpdateMetrics
    \/ ResetToDefaults

\* C40: a write of current_parameters (reset_to_defaults) made while a tick
\* is analysing is never overwritten by that tick's result, computed from
\* the parameters read before the write.
C40_TickKeepsConcurrentReset ==
    [][tick_pc = "analysing" /\ tick_pc' = "idle"
          /\ current_parameters # tick_params
        => current_parameters' = current_parameters]_vars

(***************************************************************************)
(* Part X.  EventBus (src/core/integration/event_bus.rs)                   *)
(*                                                                         *)
(* The bus is a tokio::sync::broadcast channel: one ring buffer of the     *)
(* last events, and per receiver the position it reads next.  An event is  *)
(* named by the number of the publish call that sent it.                   *)
(***************************************************************************)

\* EventBus::new(capacity); 1000 in main.rs
BusCapacity == 3

\* publish calls the model follows
MaxEvents == 6

Subscribers == {"fast", "slow"}

\* broadcast::channel(capacity) rounds the capacity up to a power of two
next_power_of_two(n) ==
    CHOOSE q \in {1, 2, 4, 8, 16} : q >= n /\ (q = 1 \/ q \div 2 < n)

\* the length of the ring buffer
buffer_len == next_power_of_two(BusCapacity)

InitBus ==
    /\ bus_sent = 0
    /\ bus_tail = 0
    /\ bus_buffer = << >>
    /\ rx_next = [s \in Subscribers |-> 0]
    /\ rx_log = [s \in Subscribers |-> << >>]

\* EventBus::subscribe: the receiver starts at the tail.
Subscribe(s) ==
    /\ rx_next[s] = 0
    /\ rx_next' = [rx_next EXCEPT ![s] = bus_tail + 1]
    /\ UNCHANGED <<bus_sent, bus_tail, bus_buffer, rx_log>>
    /\ UNCHANGED besidesBus

\* A publish over a channel with back-pressure: it waits while the slowest
\* subscriber still has the oldest retained event to read.
Publish_backpressure ==
    /\ bus_sent < MaxEvents
    /\ \A s \in Subscribers :
          rx_next[s] # 0 => bus_tail + 1 - rx_next[s] < buffer_len
    /\ bus_sent' = bus_sent + 1
    /\ IF \A s \in Subscribers : rx_next[s] = 0
       THEN UNCHANGED <<bus_tail, bus_buffer>>
       ELSE /\ bus_tail' = bus_tail + 1
            /\ bus_buffer' = Append(bus_buffer, bus_sent + 1)
    /\ UNCHANGED <<rx_next, rx_log>>
    /\ UNCHANGED besidesBus

\* EventBus::publish: sender.send(event).  With no receiver send returns
\* Err and stores nothing; otherwise the event takes the next slot of the
\* ring, overwriting the oldest one when the ring is full.  publish is not
\* async: it returns without waiting for any receiver.
Publish ==
    /\ bus_sent < MaxEvents
    /\ bus_sent' = bus_sent + 1
    /\ IF \A s \in Subscribers : rx_next[s] = 0
       THEN UNCHANGED <<bus_tail, bus_buffer>>
       ELSE /\ bus_tail' = bus_tail + 1
            /\ bus_buffer' =
                  IF Len(bus_buffer) = buffer_len
                  THEN Append(Tail(bus_buffer), bus_sent + 1)
                  ELSE Append(bus_buffer, bus_sent + 1)
    /\ UNCHANGED <<rx_next, rx_log>>
    /\ UNCHANGED besidesBus

\* the position of the oldest event the ring retains
oldest_retained == bus_tail - Len(bus_buffer) + 1

\* Receiver::recv: the next event, or Err(Lagged(n)) when the slot of the
\* next position has been overwritten; the receiver then continues with the
\* oldest retained event.  With nothing to read recv waits.
Recv(s) ==
    /\ rx_next[s] # 0
    /\ rx_next[s] <= bus_tail
    /\ IF rx_next[s] < oldest_retained
       THEN /\ rx_log' = [rx_log EXCEPT ![s] =
                   Append(@, [lagged |-> oldest_retained - rx_next[s], event |-> 0])]
            /\ rx_next' = [rx_next EXCEPT ![s] = oldest_retained]
       ELSE /\ rx_log' = [rx_log EXCEPT ![s] =
                   Append(@, [lagged |-> 0,
                              event |-> bus_buffer[rx_next[s] - oldest_retained + 1]])]
            /\ rx_next' = [rx_next EXCEPT ![s] = @ + 1]
    /\ UNCHANGED <<bus_sent, bus_tail, bus_buffer>>
    /\ UNCHANGED besidesBus

NextBus ==
    \/ \E s \in Subscribers : Subscribe(s)
    \/ Publish
    \/ \E s \in Subscribers : Recv(s)

\* The events an entry of a receiver's log stands for: one, or the n of
\* Lagged(n).
Covers(r) == IF r.lagged = 0 THEN 1 ELSE r.lagged

\* The events the entries i+1..j of a log stand for.
RECURSIVE CoveredBetween(_, _, _)
CoveredBetween(log, i, j) ==
    IF j <= i THEN 0 ELSE Covers(log[j]) + CoveredBetween(log, i, j - 1)

\* How far behind the tail a subscriber is: the events stored and not yet
\* read by it.
Behind(s) == bus_tail + 1 - rx_next[s]

SrlTicksPerSec == 2

\* the largest max_requests and burst_allowance of the configurations
SrlMaxRequests == 2

SrlMaxBurst == 2

\* acquire calls the model follows
SrlMaxCalls == 4

\* the last instant the model follows
SrlMaxTime == 5

SrlTasks == {"a", "b"}

\* RateLimiterConfig; window_duration_secs is 1 as in Default and the tests
SrlConfigs ==
    [max_requests : 0..SrlMaxRequests, window_duration_secs : {1},
     burst_allowance : 1..SrlMaxBurst]

NoConfig == [max_requests |-> -1, window_duration_secs |-> 0, burst_allowance |-> 0]

\* Duration::from_secs(self.config.window_duration_secs)
srl_window == srl_config.window_duration_secs * SrlTicksPerSec

InitSRL ==
    /\ srl_config = NoConfig
    /\ srl_now = 0
    /\ srl_semaphore = 0
    /\ request_times = << >>
    /\ srl_pc = [t \in SrlTasks |-> "idle"]
    /\ srl_wake = [t \in SrlTasks |-> 0]
    /\ srl_held = [t \in SrlTasks |-> 0]
    /\ srl_start = [t \in SrlTasks |-> -1]
    /\ srl_calls = 0
    /\ srl_grants = << >>

\* RateLimiter::new(config)
SrlNew ==
    /\ srl_config = NoConfig
    /\ \E config \in SrlConfigs :
          /\ srl_config' = config
          /\ srl_semaphore' = config.burst_allowance
    /\ UNCHANGED <<srl_now, request_times, srl_pc, srl_wake, srl_held,
                   srl_start, srl_calls, srl_grants>>
    /\ UNCHANGED besidesSRL

\* A task calls acquire() and waits at semaphore.acquire_owned().
SrlAcquireCall(t) ==
    /\ srl_config # NoConfig
    /\ srl_pc[t] = "idle"
    /\ srl_calls < SrlMaxCalls
    /\ srl_calls' = srl_calls + 1
    /\ srl_pc' = [srl_pc EXCEPT ![t] = "semaphore"]
    /\ srl_start' = [srl_start EXCEPT ![t] = IF @ = -1 THEN srl_now ELSE @]
    /\ UNCHANGED <<srl_config, srl_now, srl_semaphore, request_times,
                   srl_wake, srl_held, srl_grants>>
    /\ UNCHANGED besidesSRL

\* acquire_owned().await returns a permit.
SrlSemAcquire(t) ==
    /\ srl_pc[t] = "semaphore"
    /\ srl_semaphore > 0
    /\ srl_semaphore' = srl_semaphore - 1
    /\ srl_pc' = [srl_pc EXCEPT ![t] = "loop"]
    /\ UNCHANGED <<srl_config, srl_now, request_times, srl_wake, srl_held,
                   srl_start, srl_calls, srl_grants>>
    /\ UNCHANGED besidesSRL

\* "Remove old entries": pop_front while front < window_start
RECURSIVE remove_old_entries(_, _)
remove_old_entries(times, from) ==
    IF times # << >> /\ Head(times) < from
    THEN remove_old_entries(Tail(times), from)
    ELSE times

\* What acquire returns: a permit for the task.
SrlReturnPermit(t, recorded) ==
    /\ srl_held' = [srl_held EXCEPT ![t] = @ + 1]
    /\ srl_grants' = Append(srl_grants,
                            [task |-> t, start_time |-> srl_now, recorded |-> recorded])
    /\ srl_pc' = [srl_pc EXCEPT ![t] = "idle"]

\* One iteration of the loop of acquire: remove old entries; return a
\* recorded permit if times.len() < max_requests; otherwise sleep until
\* oldest + window, or, with no oldest entry, break and return a permit
\* that is not recorded.
SrlLoop(t) ==
    /\ srl_pc[t] = "loop"
    /\ LET times == remove_old_entries(request_times, srl_now - srl_window)
       IN  IF Len(times) < srl_config.max_requests
           THEN /\ request_times' = Append(times, srl_now)
                /\ SrlReturnPermit(t, TRUE)
                /\ UNCHANGED srl_wake
           ELSE IF times # << >>
           THEN /\ request_times' = times
                /\ srl_wake' = [srl_wake EXCEPT ![t] = Head(times) + srl_window]
                /\ srl_pc' = [srl_pc EXCEPT ![t] = "sleep"]
                /\ UNCHANGED <<srl_held, srl_grants>>
           ELSE /\ request_times' = times
                /\ SrlReturnPermit(t, FALSE)
                /\ UNCHANGED srl_wake
    /\ UNCHANGED <<srl_config, srl_now, srl_semaphore, srl_start, srl_calls>>
    /\ UNCHANGED besidesSRL

\* time::sleep(wait_duration) is over.
SrlWake(t) ==
    /\ srl_pc[t] = "sleep"
    /\ srl_now >= srl_wake[t]
    /\ srl_pc' = [srl_pc EXCEPT ![t] = "loop"]
    /\ UNCHANGED <<srl_config, srl_now, srl_semaphore, request_times,
                   srl_wake, srl_held, srl_start, srl_calls, srl_grants>>
    /\ UNCHANGED besidesSRL

\* A task drops one of its RateLimitPermits: the OwnedSemaphorePermit in it
\* goes back to the semaphore.
SrlDrop(t) ==
    /\ srl_held[t] > 0
    /\ srl_held' = [srl_held EXCEPT ![t] = @ - 1]
    /\ srl_semaphore' = srl_semaphore + 1
    /\ UNCHANGED <<srl_config, srl_now, request_times, srl_pc, srl_wake,
                   srl_start, srl_calls, srl_grants>>
    /\ UNCHANGED besidesSRL

\* Time passes while a task sleeps.
SrlAdvance ==
    /\ \E t \in SrlTasks : srl_pc[t] = "sleep"
    /\ srl_now < SrlMaxTime
    /\ srl_now' = srl_now + 1
    /\ UNCHANGED <<srl_config, srl_semaphore, request_times, srl_pc, srl_wake,
                   srl_held, srl_start, srl_calls, srl_grants>>
    /\ UNCHANGED besidesSRL

\* get_current_usage
get_current_usage ==
    Len(SelectSeq(request_times, LAMBDA x : x >= srl_now - srl_window))

\* get_available_capacity
get_available_capacity == saturating_sub(srl_config.max_requests, get_current_usage)

NextSRL ==
    \/ SrlNew
    \/ \E t \in SrlTasks : SrlAcquireCall(t)
    \/ \E t \in SrlTasks : SrlSemAcquire(t)
    \/ \E t \in SrlTasks : SrlLoop(t)
    \/ \E t \in SrlTasks : SrlWake(t)
    \/ \E t \in SrlTasks : SrlDrop(t)
    \/ SrlAdvance

\* The records a step has popped from the front of a deque.
Popped(before, after) == SubSeq(before, 1, Len(before) - Len(after))

\* The monitor tick pops only records strictly older than the cutoff and
\* lowers current_usage and category_usage by the popped weights.
ControllerEviction ==
    Len(requests') < Len(requests) =>
       LET popped == Popped(requests, requests')
           OfCat(k) == SelectSeq(popped, LAMBDA r : r.category = k)
       IN  /\ \A i \in 1..Len(popped) : popped[i].timestamp < now - WINDOW_MS
           /\ current_usage' = current_usage - SumWeights(popped)
           /\ \A k \in Categories :
                 category_usage'[k] = category_usage[k] - SumWeights(OfCat(k))

\* The heartbeat's eviction (the reset apart) pops only records strictly
\* older than the cutoff and lowers total_weight_used by the popped weights.
SchedulerEviction ==
    (Len(operations') < Len(operations) /\ sch_state # "Resetting") =>
       LET popped == Popped(operations, operations')
       IN  /\ \A i \in 1..Len(popped) :
                 popped[i].timestamp < sch_now - from_millis(LIMIT_WINDOW_SECONDS * 1000)
           /\ sch_total_weight_used' = sch_total_weight_used - SumOpWeights(popped)

\* clean_old_requests pops only records strictly older than the cutoff.
LimiterEviction ==
    Len(request_history') < Len(request_history) =>
       LET popped == Popped(request_history, request_history')
       IN  \A i \in 1..Len(popped) : popped[i].timestamp < rl_now - window_duration

\* C22: no eviction (monitor tick of the controller, heartbeat of the
\* scheduler, clean_old_requests of the limiter) removes a record whose
\* timestamp is later than now - window, and the usage counters are reduced
\* by exactly the popped weights.
C22_EvictionOnlyOldRecords ==
    /\ [][ControllerEviction]_varsURC
    /\ [][SchedulerEviction]_varsSched
    /\ [][LimiterEviction]_varsRL

\* C23: after every monitor tick the pressure state is the classification of
\* (weight of the Request Records in the rolling window) / capacity, and no
\* operation other than the monitor tick changes the pressure state.
C23_PressureStateFollowsWindow ==
    [][/\ MonitorTick => throttle_state' = classify(WindowWeight')
       /\ throttle_state' # throttle_state => MonitorTick]_varsURC

\* The entries a step has taken from the front of the queue of a priority.
GrantedFrom(p) == Len(queues[p]) - Len(queues'[p])

\* C24: in every pressure state a monitor tick that finds a non-empty
\* priority queue grants at least one queued request.
C24_TickGrantsFromNonEmptyQueue ==
    [][(MonitorTick /\ \E p \in Priorities : queues[p] # << >>)
          => \E p \in Priorities : GrantedFrom(p) >= 1]_varsURC

\* usage, in percent of max_weight, is below pct
UsageBelow(total, pct) == total * 100 < pct * SCHED_MAX_WEIGHT

\* A heartbeat outside cooldown: the step that assigns the state by usage.
UsageHeartbeat == sch_state \notin {"Cooldown", "Resetting"} /\ sch_next_tick' # sch_next_tick

\* C35: at a heartbeat outside cooldown the state returns from THROTTLED to
\* ACTIVE when usage is below 75%, and from HEAVY to ACTIVE when usage is
\* below 85%.  (The state is assigned once per heartbeat: the model's
\* heartbeat is one step.)
C35_ThrottleStatesReturnToActive ==
    [][UsageHeartbeat =>
          /\ sch_state = "Throttled"
                 /\ UsageBelow(sch_total_weight_used', SCHED_THROTTLE_PCT)
                => sch_state' = "Active"
          /\ sch_state = "HeavyThrottle"
                 /\ UsageBelow(sch_total_weight_used', EMERGENCY_THROTTLE_PCT)
                => sch_state' = "Active"]_varsSched

\* C36: a record leaves operations only once its timestamp is outside the
\* rolling window; a reset discards no record younger than the window.
C36_OnlyOldRecordsLeave ==
    [][\A i \in 1..Len(operations) :
          (\A j \in 1..Len(operations') : operations'[j] # operations[i])
             => operations[i].timestamp
                   < sch_now - from_millis(LIMIT_WINDOW_SECONDS * 1000)]_varsSched

\* C39: a reset always passes validate_pre_reset: failed_resets stays 0, and
\* between heartbeats cooldowns_triggered = successful_resets + 1 in
\* COOLDOWN and = successful_resets otherwise.
C39_ResetsAlwaysValidated ==
    /\ failed_resets = 0
    /\ ~Locked =>
          cooldowns_triggered
             = successful_resets + (IF sch_state = "Cooldown" THEN 1 ELSE 0)

\* The permits acquire has returned to a task.
GrantsOf(t) == SelectSeq(srl_grants, LAMBDA g : g.task = t)

\* The task is the only caller, and it has kept every permit it got.
RetainsAlone(t) ==
    /\ \A u \in SrlTasks \ {t} : srl_start[u] = -1
    /\ srl_held[t] = Len(GrantsOf(t))

\* C33: a caller that acquires max_requests permits one after another and
\* keeps every permit it got obtains all of them: it is never left waiting
\* for a semaphore permit that only the permits it keeps could give back;
\* and the whole sequence takes at least one window.  (That it takes less
\* than two windows is not part of the formula: how late a sleeping task
\* wakes is not bounded in the model.)
C33_RetainingCallerGetsAllPermits ==
    \A t \in SrlTasks :
       RetainsAlone(t) =>
          /\ ~(/\ srl_pc[t] = "semaphore"
                /\ srl_semaphore = 0
                /\ Len(GrantsOf(t)) < srl_config.max_requests)
          /\ srl_config.max_requests >= 1
                /\ Len(GrantsOf(t)) = srl_config.max_requests
                => srl_now - srl_start[t] >= srl_window

\* C34: in every configuration and under every interleaving, the permits
\* granted with start_time inside any window of window_duration_secs are at
\* most max_requests, every permit granted is recorded in request_times,
\* and get_available_capacity = max_requests - get_current_usage.
C34_WindowNeverExceedsMaxRequests ==
    srl_config # NoConfig =>
       /\ \A i \in 1..Len(srl_grants) :
             Cardinality({j \in 1..Len(srl_grants) :
                 /\ srl_grants[j].start_time >= srl_grants[i].start_time
                 /\ srl_grants[j].start_time
                       < srl_grants[i].start_time + srl_window})
                <= srl_config.max_requests
       /\ \A i \in 1..Len(srl_grants) : srl_grants[i].recorded
       /\ get_available_capacity = srl_config.max_requests - get_current_usage

\* The records are in non-decreasing timestamp order.
InTimestampOrder(reqs) ==
    \A i, j \in 1..Len(reqs) : i < j => reqs[i].timestamp <= reqs[j].timestamp

\* C37: the controller's requests sequence is always in non-decreasing
\* timestamp order, whatever the interleaving of concurrent complete calls,
\* and so a monitor tick leaves no record behind that is older than its
\* cutoff.
C37_RecordsInTimestampOrder ==
    /\ []InTimestampOrder(requests)
    /\ [][MonitorTick =>
             \A i \in 1..Len(requests') :
                 ~(requests'[i].timestamp < now - WINDOW_MS)]_varsURC

Init ==
    /\ InitURC /\ InitLock /\ InitRL /\ InitSched /\ InitPQ /\ InitOpt
    /\ InitPTV /\ InitJit /\ InitTick /\ InitBus /\ InitSRL

Spec == Init /\ [][NextURC]_vars

SpecLatency == Init /\ [][NextLatency]_vars

SpecLock == Init /\ [][NextLock]_vars

SpecRL == Init /\ [][NextRL]_vars

SpecSched == Init /\ [][NextSched]_vars

SpecSchedOps == Init /\ [][NextSchedOps]_vars

SpecSchedMix == Init /\ [][NextSchedMix]_vars

SpecJit == Init /\ [][NextJit]_vars

SpecOptRace == Init /\ [][NextOptRace]_vars

SpecBus == Init /\ [][NextBus]_vars

SpecSRL == Init /\ [][NextSRL]_vars

SpecPQ == Init /\ [][NextPQ]_vars

SpecOpt == Init /\ [][NextOpt]_vars

SpecPTV == Init /\ [][NextPTV]_vars

====
